---- MODULE Spec2Model ----
(***************************************************************************)
(* Model of the WateringSystem firmware: the watering controller's         *)
(* decision state machine (WateringController.cpp), the pump actuator      *)
(* (WaterPump.cpp), the soil sensor adapter as far as the controller sees  *)
(* it (ModbusSoilSensor.cpp), the background sensor task, and the RS485    *)
(* Modbus RTU client at byte level (SP3485ModbusClient.cpp).               *)
(*                                                                         *)
(* Spec drives the controller with the transport abstracted to the         *)
(* outcome of each exchange; SetupSpec drives the set-up and configuration *)
(* calls; ModbusSpec drives the transport alone with the bytes the line    *)
(* delivers; CrcSpec applies calculateCRC() to byte buffers; ReceiveSpec    *)
(* runs one exchange byte by byte against millis(), with fairness on the   *)
(* receive loop; SensorSpec runs ModbusSoilSensor::read() assignment by    *)
(* assignment next to the foreground's getters; CalibrationSpec adds       *)
(* calibrateMoisture(); DirectionSpec runs one exchange operation by       *)
(* operation on the serial line and the direction pin; BufferSpec follows  *)
(* the receive loop's buffer index; RecoverySpec is the controller left to *)
(* itself under fair scheduling; LoopSpec is main.cpp's loop watchdog.     *)
(*                                                                         *)
(* Units: time is millis() in milliseconds; moisture and the two moisture  *)
(* thresholds are held in tenths of a percent (the sensor register is      *)
(* raw/10 percent), so 30.0 % is 300 and the range [0,100] is [0,1000].    *)
(* Durations are seconds, as in the code.                                  *)
(*                                                                         *)
(* logSensorData() first fires dataLogInterval (300 000 ms) after boot,    *)
(* beyond the time horizon MaxTime explored here, and lastSensorReadTime   *)
(* is written but never read: neither is modelled.                         *)
(***************************************************************************)
EXTENDS Integers, Sequences, FiniteSets, TLC

\* ---------------------------------------------------------------- bounds
BootMs == 30000
TickMs == 30000
MaxTime == 90000
ManualDurations == {0, 40}
EnvOutcomes == {TRUE}
RawMoistures == {250, 600, 1500}
ThresholdInputs == {600, 1001}
DurationInputs == {0, 1, 300, 301}
LowThresholdInputs == {-1, 1000, 1001}
HighThresholdInputs == {-1, 0, 1001}
IntervalInputs == {0, 1}
PendingBytes == {<<>>, <<85>>}
MaxCalls == 2
ExceptionCode == 2
ReadCalls == {<<1, 0, 1>>, <<3, 258, 2>>, <<1, 0, 0>>, <<1, 0, 126>>}
WriteCalls == {<<1, 512, 7>>}
DeviceData == <<1, 35, 255, 254, 0, 128>>
CallerBuffer == <<43690, 48059>>
MaxCrcLen == 3
MaxExchanges == 1
PollStepMs == 1500
TimeoutInputs == {0, 1500}
ExchangeReads == {<<1, 0, 1>>, <<1, 0, 126>>}
MaxReads == 2
MaxStream == 258
MaxUptime == 40000
IterationMs == {100, 3000}
RegisterBlocks ==
  { <<450, 215, 65, 1200, 40, 30, 20, 550>>,
    <<300, 65436, 70, 800, 10, 10, 10, 400>>,
    <<1001, 215, 65, 1200, 40, 30, 20, 550>>,
    <<450, 65035, 65, 1200, 40, 30, 20, 550>>,
    <<450, 215, 29, 1200, 40, 30, 20, 550>>,
    <<450, 215, 65, 1200, 40, 30, 20, 1001>>,
    <<450, 215, 65, 5001, 3001, 3001, 3001, 550>> }
RangeInputs == {<<"moisture", 200, 400>>, <<"ph", 90, 30>>}
CalibrationRaws == {0, 300, 450}
ReferenceInputs == {150, 900}
CrcBytes == {0, 1, 128, 163, 255}

\* ------------------------------------------------------ program constants
StaleMs == 30000
MsPerSecond == 1000
MoistureMax == 1000
ThresholdMax == 1000
MaxWateringDuration == 300
DEFAULT_MIN_WATERING_INTERVAL == 300
DEFAULT_MOISTURE_THRESHOLD_LOW == 300
DEFAULT_MOISTURE_THRESHOLD_HIGH == 550
DEFAULT_WATERING_DURATION == 20
CRC_INIT == 65535
CRC_POLY == 40961
BitsPerByte == 8
FC_READ == 3
FC_WRITE == 6
FC_READ_EXCEPTION == 131
EXCEPTION_BASE == 100
MAX_REGISTER_COUNT == 125
ResyncWindow == 3
RS485_DEFAULT_TIMEOUT_MS == 3000
WRITE_RESPONSE_LENGTH == 8
RESPONSE_BUFFER_SIZE == 256
LOOP_WATCHDOG_TIMEOUT == 30000

VARIABLES hw, now, ctl, pump, soil, store, task, mutex, fgPc, ev, mb

vars == <<hw, now, ctl, pump, soil, store, task, mutex, fgPc, ev, mb>>

\* (millis() - t) on unsigned long.  Every timestamp the code stores is an
\* earlier millis() value and the horizon MaxTime is far below the 2^32 ms
\* wrap, so the difference never wraps here (TimestampsInPast checks it).
USub(a, b) == a - b

\* ------------------------------------------------------------- WaterPump
PumpInit == [initialized |-> FALSE, running |-> FALSE, lastError |-> 0,
             startTime |-> 0, runDuration |-> 0, manualMode |-> FALSE]

PumpInitialize(p) ==
  IF p.initialized THEN p
  ELSE [p EXCEPT !.initialized = TRUE, !.lastError = 0]

PumpStart(p, t) ==
  [p |-> [PumpInitialize(p) EXCEPT !.running = TRUE, !.startTime = t,
                                   !.runDuration = 0, !.manualMode = FALSE],
   ok |-> TRUE]

PumpStop(p) ==
  IF ~p.initialized
  THEN [p |-> [p EXCEPT !.lastError = 1], ok |-> FALSE]
  ELSE [p |-> [p EXCEPT !.running = FALSE, !.manualMode = FALSE], ok |-> TRUE]

PumpRunFor(p, seconds, t) ==
  IF seconds = 0 THEN PumpStop(p)
  ELSE [p |-> [PumpStart(p, t).p EXCEPT !.manualMode = TRUE,
                                        !.runDuration = seconds],
        ok |-> TRUE]

PumpCheckTimedRun(p, t) ==
  IF p.running /\ p.runDuration > 0
     /\ USub(t, p.startTime) >= p.runDuration * MsPerSecond
  THEN PumpStop(p).p
  ELSE p

\* isRunning() runs checkTimedRun() and then reports the flag
PumpIsRunning(p, t) == PumpCheckTimedRun(p, t)

\* ------------------------------------------------------ ModbusSoilSensor
\* xferOk stands for the outcome of the Modbus exchange the call performs.
\* The adapter's own lastError is not read by the controller and is left out.
\* validAt is the snapshot's timestamp: the time of the successful read()
\* that produced the moisture field, 0 when no successful read produced it.
SoilInit == [initialized |-> FALSE, moisture |-> 0, validAt |-> 0]

SoilInitialize(s, xferOk) ==
  IF s.initialized THEN [s |-> s, ok |-> TRUE]
  ELSE IF ~xferOk THEN [s |-> s, ok |-> FALSE]
  ELSE [s |-> [s EXCEPT !.initialized = TRUE], ok |-> TRUE]

\* read(): the fields are assigned before the range validation, so a
\* range-rejected read leaves its values in the getters.  A bus outcome x
\* has kind "initfail" (the probe of a lazy initialize() failed),
\* "transport" (the 8-register exchange failed) or "data", with the moisture
\* register and whether temperature, humidity and pH are in range.
SoilRead(s, x, t) ==
  IF ~s.initialized /\ x.kind = "initfail" THEN [s |-> s, ok |-> FALSE]
  ELSE
    LET s1 == SoilInitialize(s, TRUE).s IN
    IF x.kind # "data" THEN [s |-> s1, ok |-> FALSE]
    ELSE LET valid == x.raw >= 0 /\ x.raw <= MoistureMax /\ x.othersOk IN
         [s |-> [s1 EXCEPT !.moisture = x.raw,
                           !.validAt = IF valid THEN t ELSE 0],
          ok |-> valid]

NoData(kind) == [kind |-> kind, raw |-> 0, othersOk |-> FALSE]

BusOutcomes(s) ==
  (IF s.initialized THEN {NoData("transport")}
   ELSE {NoData("initfail"), NoData("transport")})
  \cup [kind : {"data"}, raw : RawMoistures, othersOk : BOOLEAN]

SoilIsAvailable(s, xferOk) ==
  IF ~s.initialized THEN SoilInitialize(s, xferOk)
  ELSE [s |-> s, ok |-> xferOk]

\* ------------------------------------------------- SP3485ModbusClient
\* The RS485 Modbus RTU client.  Bytes are 0..255, registers 0..65535.
\* mb holds the client's members, the state of the direction pin, the
\* serial receive buffer (rx), the caller's output buffer (out) and a record
\* of the last call: its arguments, the bytes that arrived on the line
\* after the request (resp), its return value, and what it did to the
\* hardware (pin operations, bytes removed from the receive buffer, bytes
\* written).

\* bitwise exclusive or of two naturals
RECURSIVE Xor(_, _)
Xor(a, b) ==
  IF a = 0 THEN b
  ELSE IF b = 0 THEN a
  ELSE (((a % 2) + (b % 2)) % 2) + 2 * Xor(a \div 2, b \div 2)

\* the inner loop of calculateCRC(): i counts 8 down to 1; next is the
\* value of crc after one iteration, bound before the following one
RECURSIVE CrcShift(_, _)
CrcShift(crc, i) ==
  IF i = 0 THEN crc
  ELSE CHOOSE r \in {CrcShift(next, i - 1) :
                       next \in {IF crc % 2 # 0
                                 THEN Xor(crc \div 2, CRC_POLY)
                                 ELSE crc \div 2}} : TRUE

\* the outer loop of calculateCRC(): pos runs over 0 .. length-1, crc is the
\* running value
RECURSIVE CrcLoop(_, _, _, _)
CrcLoop(buffer, length, pos, crc) ==
  IF pos >= length THEN crc
  ELSE CHOOSE r \in {CrcLoop(buffer, length, pos + 1, next) :
                       next \in {CrcShift(Xor(crc, buffer[pos + 1]),
                                          BitsPerByte)}} : TRUE

CalculateCRC_ZeroSeed(buffer, length) == CrcLoop(buffer, length, 0, 0)

CalculateCRC(buffer, length) == CrcLoop(buffer, length, 0, CRC_INIT)

\* calculateCRC() of the RS485 test programs: the inner loop counts j up to 8
RECURSIVE ReferenceShift(_, _)
ReferenceShift(crc, j) ==
  IF j >= 8 THEN crc
  ELSE IF crc % 2 = 1 THEN ReferenceShift(Xor(crc \div 2, 40961), j + 1)
  ELSE ReferenceShift(crc \div 2, j + 1)

RECURSIVE ReferenceLoop(_, _, _, _)
ReferenceLoop(data, length, i, crc) ==
  IF i >= length THEN crc
  ELSE ReferenceLoop(data, length, i + 1,
                     ReferenceShift(Xor(crc, data[i + 1]), 0))

\* length is a uint8_t there
ReferenceCRC(data, length) == ReferenceLoop(data, length % 256, 0, 65535)

NoCall ==
  [op |-> "none", a |-> 0, r |-> 0, c |-> 0, resp |-> <<>>, ret |-> FALSE,
   pinOps |-> 0, drained |-> 0, wrote |-> <<>>]

\* the client as constructed; calls counts the completed
\* readHoldingRegisters() and writeSingleRegister() calls
ModbusClientInit(serial, pending, buffer) ==
  [serial |-> serial, initialized |-> FALSE, lastError |-> 0,
   successCount |-> 0, errorCount |-> 0, de |-> "unset", rx |-> pending,
   out |-> buffer, call |-> NoCall, calls |-> 0,
   timeout |-> RS485_DEFAULT_TIMEOUT_MS]

\* initialize(): m is the client after the call, pinOps and drained what the
\* call did to the direction pin and to the receive buffer
ModbusInitialize_Rerun(m) ==
  IF ~m.serial
  THEN [m |-> [m EXCEPT !.lastError = 1], ok |-> FALSE, pinOps |-> 0,
        drained |-> 0]
  ELSE [m |-> [m EXCEPT !.de = "low", !.rx = <<>>, !.initialized = TRUE,
                        !.lastError = 0],
        ok |-> TRUE, pinOps |-> 2, drained |-> Len(m.rx)]

ModbusInitialize(m) ==
  IF m.initialized
  THEN [m |-> m, ok |-> TRUE, pinOps |-> 0, drained |-> 0]
  ELSE IF ~m.serial
  THEN [m |-> [m EXCEPT !.lastError = 1], ok |-> FALSE, pinOps |-> 0,
        drained |-> 0]
  ELSE [m |-> [m EXCEPT !.de = "low", !.rx = <<>>, !.initialized = TRUE,
                        !.lastError = 0],
        ok |-> TRUE, pinOps |-> 2, drained |-> Len(m.rx)]

Min(a, b) == IF a < b THEN a ELSE b

\* mutant: a failing return that does not count the error
Fail_Uncounted(m, code) == [m EXCEPT !.lastError = code]

\* mutant: a failing return that restarts the error counter
Fail_Reset(m, code) == [m EXCEPT !.lastError = code, !.errorCount = 1]

\* every failing return: lastError = code; errorCount++
Fail(m, code) == [m EXCEPT !.lastError = code, !.errorCount = @ + 1]

\* mutant: the CRC is appended high byte first
ReadRequest_CrcHighFirst(deviceAddress, startRegister, count) ==
  LET request == <<deviceAddress, FC_READ,
                   startRegister \div 256, startRegister % 256,
                   count \div 256, count % 256>>
      crc == CalculateCRC(request, 6)
  IN request \o <<crc \div 256, crc % 256>>

\* the 8-byte read request
ReadRequest(deviceAddress, startRegister, count) ==
  LET request == <<deviceAddress, FC_READ,
                   startRegister \div 256, startRegister % 256,
                   count \div 256, count % 256>>
      crc == CalculateCRC(request, 6)
  IN request \o <<crc % 256, crc \div 256>>

\* the 8-byte write request
WriteRequest(deviceAddress, registerAddress, value) ==
  LET request == <<deviceAddress, FC_WRITE,
                   registerAddress \div 256, registerAddress % 256,
                   value \div 256, value % 256>>
      crc == CalculateCRC(request, 6)
  IN request \o <<crc % 256, crc \div 256>>

\* the resynchronisation scan: the first i < min(3, bytesRead - 1) with
\* rawResponse[i] = deviceAddress and rawResponse[i + 1] = 0x03, else -1
CorrectOffset(rawResponse, bytesRead, deviceAddress) ==
  LET hits == {i \in 0 .. (Min(ResyncWindow, bytesRead - 1) - 1) :
                 /\ rawResponse[i + 1] = deviceAddress
                 /\ rawResponse[i + 2] = FC_READ}
  IN IF hits = {} THEN -1
     ELSE CHOOSE i \in hits : \A k \in hits : i <= k

\* mutant: the registers are decoded low byte first
ParseReadResponse_LittleEndian(m, deviceAddress, count, rawResponse) ==
  LET expectedLength == (5 + count * 2) % 256
      correctOffset == CorrectOffset(rawResponse, Len(rawResponse),
                                     deviceAddress)
      response == SubSeq(rawResponse, correctOffset + 1, Len(rawResponse))
      bytesRead == Len(response)
      responseCRC == response[bytesRead] * 256 + response[bytesRead - 1]
  IN IF correctOffset < 0 THEN Fail(m, 4)
     ELSE IF bytesRead < expectedLength THEN Fail(m, 3)
     ELSE IF response[1] # deviceAddress THEN Fail(m, 4)
     ELSE IF response[2] # FC_READ
          THEN IF response[2] = FC_READ_EXCEPTION
               THEN Fail(m, EXCEPTION_BASE + response[3])
               ELSE Fail(m, 5)
     ELSE IF response[3] # count * 2 THEN Fail(m, 6)
     ELSE IF responseCRC # CalculateCRC(response, bytesRead - 2)
          THEN Fail(m, 7)
     ELSE [m EXCEPT !.out = [k \in 1 .. Len(m.out) |->
                               IF k <= count
                               THEN response[2 * k + 3] * 256
                                    + response[2 * k + 2]
                               ELSE m.out[k]],
                    !.lastError = 0,
                    !.successCount = @ + 1]

\* readHoldingRegisters() from the resynchronisation scan to its return;
\* rawResponse holds the bytes the receive loop collected
ParseReadResponse(m, deviceAddress, count, rawResponse) ==
  LET expectedLength == (5 + count * 2) % 256
      correctOffset == CorrectOffset(rawResponse, Len(rawResponse),
                                     deviceAddress)
      response == SubSeq(rawResponse, correctOffset + 1, Len(rawResponse))
      bytesRead == Len(response)
      responseCRC == response[bytesRead] * 256 + response[bytesRead - 1]
  IN IF correctOffset < 0 THEN Fail(m, 4)
     ELSE IF bytesRead < expectedLength THEN Fail(m, 3)
     ELSE IF response[1] # deviceAddress THEN Fail(m, 4)
     ELSE IF response[2] # FC_READ
          THEN IF response[2] = FC_READ_EXCEPTION
               THEN Fail(m, EXCEPTION_BASE + response[3])
               ELSE Fail(m, 5)
     ELSE IF response[3] # count * 2 THEN Fail(m, 6)
     ELSE IF responseCRC # CalculateCRC(response, bytesRead - 2)
          THEN Fail(m, 7)
     ELSE [m EXCEPT !.out = [k \in 1 .. Len(m.out) |->
                               IF k <= count
                               THEN response[2 * k + 2] * 256
                                    + response[2 * k + 3]
                               ELSE m.out[k]],
                    !.lastError = 0,
                    !.successCount = @ + 1]

\* readHoldingRegisters(): arrived is what the line delivers within the
\* timeout after the request; the receive loop takes at most
\* expectedLength + 2 bytes of it and the rest stays in the receive buffer
ReadHoldingRegisters(m, deviceAddress, startRegister, count, arrived) ==
  LET i == ModbusInitialize(m)
      call == [NoCall EXCEPT !.op = "read", !.a = deviceAddress,
                             !.r = startRegister, !.c = count,
                             !.resp = arrived, !.pinOps = i.pinOps,
                             !.drained = i.drained]
  IN IF ~i.ok
     THEN [i.m EXCEPT !.errorCount = @ + 1, !.call = call]
     ELSE IF count > MAX_REGISTER_COUNT
     THEN [Fail(i.m, 2) EXCEPT !.call = call]
     ELSE LET expectedLength == (5 + count * 2) % 256
              n == Min(Len(arrived), expectedLength + 2)
              m1 == [i.m EXCEPT !.rx = SubSeq(arrived, n + 1, Len(arrived))]
              m2 == ParseReadResponse(m1, deviceAddress, count,
                                      SubSeq(arrived, 1, n))
          IN [m2 EXCEPT !.call =
                [call EXCEPT !.ret = (m2.errorCount = m1.errorCount),
                             !.pinOps = i.pinOps + 2,
                             !.drained = i.drained + Len(i.m.rx) + n,
                             !.wrote = ReadRequest(deviceAddress,
                                                   startRegister, count)]]

\* mutant: the echo is accepted without its CRC
ParseWriteResponse_NoCrc(m, request, response) ==
  IF Len(response) # 8 THEN Fail(m, 3)
  ELSE IF \E k \in 1 .. 6 : response[k] # request[k] THEN Fail(m, 8)
  ELSE [m EXCEPT !.lastError = 0, !.successCount = @ + 1]

\* writeSingleRegister() after the request: the receive loop takes at most 8
\* bytes; the reply must echo the request
ParseWriteResponse(m, request, response) ==
  IF Len(response) # 8 THEN Fail(m, 3)
  ELSE IF \E k \in 1 .. 6 : response[k] # request[k] THEN Fail(m, 8)
  ELSE IF response[8] * 256 + response[7] # CalculateCRC(response, 6)
       THEN Fail(m, 7)
  ELSE [m EXCEPT !.lastError = 0, !.successCount = @ + 1]

WriteSingleRegister(m, deviceAddress, registerAddress, value, arrived) ==
  LET i == ModbusInitialize(m)
      call == [NoCall EXCEPT !.op = "write", !.a = deviceAddress,
                             !.r = registerAddress, !.c = value,
                             !.resp = arrived, !.pinOps = i.pinOps,
                             !.drained = i.drained]
  IN IF ~i.ok
     THEN [i.m EXCEPT !.errorCount = @ + 1, !.call = call]
     ELSE LET request == WriteRequest(deviceAddress, registerAddress, value)
              n == Min(Len(arrived), 8)
              m1 == [i.m EXCEPT !.rx = SubSeq(arrived, n + 1, Len(arrived))]
              m2 == ParseWriteResponse(m1, request, SubSeq(arrived, 1, n))
          IN [m2 EXCEPT !.call =
                [call EXCEPT !.ret = (m2.errorCount = m1.errorCount),
                             !.pinOps = i.pinOps + 2,
                             !.drained = i.drained + Len(i.m.rx) + n,
                             !.wrote = request]]

\* ---------------------------------------------------- WateringController
CtlInit(u) ==
  [initialized |-> FALSE, lastError |-> 0, lastWateringTime |-> 0,
   lastValidSensorTime |-> u, wateringEnabled |-> TRUE,
   sensorTaskRunning |-> FALSE, newSensorDataAvailable |-> FALSE,
   sensorReadSuccess |-> FALSE,
   minWateringInterval |-> DEFAULT_MIN_WATERING_INTERVAL,
   moistureThresholdLow |-> DEFAULT_MOISTURE_THRESHOLD_LOW,
   moistureThresholdHigh |-> DEFAULT_MOISTURE_THRESHOLD_HIGH,
   wateringDuration |-> DEFAULT_WATERING_DURATION]

ConfigKeys == {"minWateringInterval", "moistureThresholdLow",
               "moistureThresholdHigh", "wateringDuration", "wateringEnabled"}

\* the blob is a function from the keys it contains to their values
LoadConfiguration(c, blob) ==
  [k \in DOMAIN c |-> IF k \in ConfigKeys /\ k \in DOMAIN blob
                      THEN blob[k] ELSE c[k]]

SaveConfiguration(c) == [k \in ConfigKeys |-> c[k]]

\* the world the controller acts on
World == [ctl |-> ctl, pump |-> pump, soil |-> soil, store |-> store,
          task |-> task, mutex |-> mutex]

StartSensorTask(w) ==
  IF w.ctl.sensorTaskRunning THEN w
  ELSE [w EXCEPT !.ctl.sensorTaskRunning = TRUE, !.task.pc = "read"]

Initialize_AllOrNothing(w, envInitOk, soilXferOk) ==
  IF w.ctl.initialized THEN w
  ELSE IF ~hw.pump \/ ~hw.storage THEN [w EXCEPT !.ctl.lastError = 1]
  ELSE
    LET storageSuccess == hw.storageOk
        p1 == PumpInitialize(w.pump)
        pumpSuccess == p1.initialized
        envSensorSuccess == hw.env /\ envInitOk
        si == IF hw.soil THEN SoilInitialize(w.soil, soilXferOk)
              ELSE [s |-> w.soil, ok |-> FALSE]
        soilSensorSuccess == hw.soil /\ si.ok
        e1 == IF storageSuccess THEN w.ctl.lastError ELSE 2
        e2 == IF pumpSuccess THEN e1 ELSE 5
        e3 == IF hw.env /\ ~envInitOk THEN 3 ELSE e2
        e4 == IF hw.soil /\ ~si.ok THEN 4 ELSE e3
        fullSuccess == storageSuccess /\ pumpSuccess
                       /\ (hw.env => envInitOk) /\ (hw.soil => si.ok)
        c1 == IF storageSuccess THEN LoadConfiguration(w.ctl, w.store)
              ELSE w.ctl
        c2 == [c1 EXCEPT !.lastWateringTime = 0, !.lastValidSensorTime = 0,
                         !.initialized = TRUE,
                         !.lastError = IF fullSuccess THEN 0 ELSE e4]
        w1 == [w EXCEPT !.pump = p1, !.soil = si.s]
    IN IF fullSuccess
       THEN LET w2 == [w1 EXCEPT !.ctl = c2] IN
            IF envSensorSuccess \/ soilSensorSuccess \/ hw.soil
            THEN StartSensorTask(w2) ELSE w2
       ELSE [w1 EXCEPT !.ctl.lastError = e4]

Initialize(w, envInitOk, soilXferOk) ==
  IF w.ctl.initialized THEN w
  ELSE IF ~hw.pump \/ ~hw.storage THEN [w EXCEPT !.ctl.lastError = 1]
  ELSE
    LET storageSuccess == hw.storageOk
        p1 == PumpInitialize(w.pump)
        pumpSuccess == p1.initialized
        envSensorSuccess == hw.env /\ envInitOk
        si == IF hw.soil THEN SoilInitialize(w.soil, soilXferOk)
              ELSE [s |-> w.soil, ok |-> FALSE]
        soilSensorSuccess == hw.soil /\ si.ok
        e1 == IF storageSuccess THEN w.ctl.lastError ELSE 2
        e2 == IF pumpSuccess THEN e1 ELSE 5
        e3 == IF hw.env /\ ~envInitOk THEN 3 ELSE e2
        e4 == IF hw.soil /\ ~si.ok THEN 4 ELSE e3
        fullSuccess == storageSuccess /\ pumpSuccess
                       /\ (hw.env => envInitOk) /\ (hw.soil => si.ok)
        c1 == IF storageSuccess THEN LoadConfiguration(w.ctl, w.store)
              ELSE w.ctl
        c2 == [c1 EXCEPT !.lastWateringTime = 0, !.lastValidSensorTime = 0,
                         !.initialized = TRUE,
                         !.lastError = IF fullSuccess THEN 0 ELSE e4]
        w1 == [w EXCEPT !.pump = p1, !.soil = si.s]
    IN IF pumpSuccess
       THEN LET w2 == [w1 EXCEPT !.ctl = c2] IN
            IF envSensorSuccess \/ soilSensorSuccess \/ hw.soil
            THEN StartSensorTask(w2) ELSE w2
       ELSE [w1 EXCEPT !.ctl.lastError = e4]

\* the staleness test of processReadings(): a set timestamp that is too old
SensorDataTooOld(lv, t) == lv > 0 /\ USub(t, lv) > StaleMs

\* the range test of processReadings() on the moisture getter's value
MoistureInvalid(moisture) == moisture < 0 \/ moisture > MoistureMax

\* mutant: a start is refused until minWateringInterval has passed since the
\* last watering
ShouldStart_IntervalGated(c, running, moisture) ==
  c.wateringEnabled /\ ~running /\ moisture <= c.moistureThresholdLow
  /\ (c.lastWateringTime = 0
      \/ now - c.lastWateringTime >= c.minWateringInterval * MsPerSecond)

\* the start condition of processReadings(); running is isRunning()
ShouldStart(c, running, moisture) ==
  c.wateringEnabled /\ ~running /\ moisture <= c.moistureThresholdLow

\* mutant: the early stop misses a moisture equal to the threshold
ShouldStop_Strict(c, running, moisture) ==
  running /\ moisture > c.moistureThresholdHigh

\* the early-stop condition of processReadings(), tried when ShouldStart fails
ShouldStop(c, running, moisture) ==
  running /\ moisture >= c.moistureThresholdHigh

\* processReadings(): every path calls isRunning() at least once, which
\* runs checkTimedRun() at the same millis() value.
ProcessReadings(w, t) ==
  LET c == w.ctl
      p == PumpIsRunning(w.pump, t)
  IN
  IF SensorDataTooOld(c.lastValidSensorTime, t)
  THEN [w |-> [w EXCEPT !.pump = IF p.running THEN PumpStop(p).p ELSE p],
        out |-> "stale"]
  ELSE
    LET c1 == [c EXCEPT !.lastValidSensorTime = t]
        moisture == w.soil.moisture
    IN
    IF MoistureInvalid(moisture)
    THEN [w |-> [w EXCEPT !.ctl = c1,
                          !.pump = IF p.running THEN PumpStop(p).p ELSE p],
          out |-> "invalid"]
    ELSE IF ShouldStart(c, p.running, moisture)
    THEN [w |-> [w EXCEPT !.ctl = [c1 EXCEPT !.lastWateringTime = t],
                          !.pump = PumpRunFor(p, c.wateringDuration, t).p],
          out |-> "started"]
    ELSE IF ShouldStop(c, p.running, moisture)
    THEN [w |-> [w EXCEPT !.ctl = c1, !.pump = PumpStop(p).p],
          out |-> "stopped"]
    ELSE [w |-> [w EXCEPT !.ctl = c1, !.pump = p], out |-> "noop"]

\* mutant: the safety check forgets the unset timestamp
NoRecentSensorData_SetOnly(lv, t) == lv # 0 /\ USub(t, lv) > StaleMs

\* mutant: the safety check forgets the age of a set timestamp
NoRecentSensorData_UnsetOnly(lv, t) == lv = 0

\* the condition of the "ADDITIONAL SAFETY CHECK" at the end of update()
NoRecentSensorData(lv, t) == lv = 0 \/ USub(t, lv) > StaleMs

\* mutant: the safety check is left out
Watchdog_Skipped(w, t) == [w |-> w, wd |-> FALSE]

\* the safety check at the end of update(); wd tells whether it stopped
\* the pump
Watchdog(w, t) ==
  LET p == PumpIsRunning(w.pump, t) IN
  IF p.running /\ NoRecentSensorData(w.ctl.lastValidSensorTime, t)
  THEN [w |-> [w EXCEPT !.pump = PumpStop(p).p], wd |-> TRUE]
  ELSE [w |-> [w EXCEPT !.pump = p], wd |-> FALSE]

\* mutant: the failure branch keeps the last-valid timestamp
SensorFailed_KeepsTimestamp(w, t) ==
  LET p == IF hw.pump THEN PumpIsRunning(w.pump, t) ELSE w.pump IN
  [w EXCEPT !.pump = IF p.running THEN PumpStop(p).p ELSE p,
            !.ctl.lastError = 7]

\* the else-branch of the availability test in update()
SensorFailed(w, t) ==
  LET p == IF hw.pump THEN PumpIsRunning(w.pump, t) ELSE w.pump IN
  [w EXCEPT !.pump = IF p.running THEN PumpStop(p).p ELSE p,
            !.ctl.lastValidSensorTime = 0,
            !.ctl.lastError = 7]

\* the body of update() under the mutex, from the availability test to
\* xSemaphoreGive, followed by the safety check; halt tells whether the
\* pass itself stopped a pump that was running when it began
DecisionPass(w, available, s, t) ==
  LET w0 == [w EXCEPT !.soil = s]
      r == IF available THEN ProcessReadings(w0, t)
           ELSE [w |-> SensorFailed(w0, t), out |-> "unavailable"]
      w1 == [r.w EXCEPT !.ctl.newSensorDataAvailable = FALSE,
                        !.mutex = "free"]
      g == Watchdog(w1, t)
  IN [w |-> g.w, out |-> r.out, wd |-> g.wd,
      halt |-> PumpIsRunning(w.pump, t).running /\ ~r.w.pump.running]

\* mutant: manual watering refuses while automatic watering is disabled
ManualWateringOp_Gated(w, duration, envInitOk, soilXferOk, t) ==
  LET w0 == Initialize(w, envInitOk, soilXferOk) IN
  IF ~w0.ctl.initialized \/ ~w0.ctl.wateringEnabled
  THEN [w |-> w0, ok |-> FALSE]
  ELSE
    LET r == IF duration > 0 THEN PumpRunFor(w0.pump, duration, t)
             ELSE PumpStart(w0.pump, t)
    IN [w |-> [w0 EXCEPT !.pump = r.p, !.ctl.lastWateringTime = t],
        ok |-> r.ok]

\* manualWatering(duration)
ManualWateringOp(w, duration, envInitOk, soilXferOk, t) ==
  LET w0 == Initialize(w, envInitOk, soilXferOk) IN
  IF ~w0.ctl.initialized THEN [w |-> w0, ok |-> FALSE]
  ELSE
    LET r == IF duration > 0 THEN PumpRunFor(w0.pump, duration, t)
             ELSE PumpStart(w0.pump, t)
    IN [w |-> [w0 EXCEPT !.pump = r.p,
                         !.ctl.lastWateringTime =
                            IF r.ok THEN t ELSE w0.ctl.lastWateringTime],
        ok |-> r.ok]

StopWateringOp(w) ==
  IF ~w.ctl.initialized THEN [w |-> [w EXCEPT !.ctl.lastError = 8], ok |-> FALSE]
  ELSE LET r == PumpStop(w.pump) IN [w |-> [w EXCEPT !.pump = r.p], ok |-> r.ok]

\* storeConfig() writes the blob when the storage can be initialized
StoreConfig(w) ==
  IF hw.storageOk THEN [w EXCEPT !.store = SaveConfiguration(w.ctl)] ELSE w

\* ---------------------------------------------------------------- actions
Commit(w) ==
  /\ ctl' = w.ctl
  /\ pump' = w.pump
  /\ soil' = w.soil
  /\ store' = w.store
  /\ task' = w.task
  /\ mutex' = w.mutex

\* ev names the update() or manualWatering() call that produced the current
\* state, its outcome and its argument; every other step resets it to Quiet
Ev(op, out, arg, halt, wd) ==
  [op |-> op, out |-> out, arg |-> arg, halt |-> halt, wd |-> wd]

Quiet == Ev("-", "-", 0, FALSE, FALSE)

\* configuration blobs found in storage at start-up: none, and one that
\* holds some of the keys (loadConfiguration() applies no range check)
Blobs ==
  { <<>>,
    [k \in {"wateringDuration", "moistureThresholdHigh"} |->
       IF k = "wateringDuration" THEN 0 ELSE 600] }

HwConfigs ==
  { [pump |-> TRUE, storage |-> TRUE, storageOk |-> TRUE, env |-> TRUE, soil |-> TRUE],
    [pump |-> TRUE, storage |-> TRUE, storageOk |-> FALSE, env |-> TRUE, soil |-> FALSE],
    [pump |-> TRUE, storage |-> TRUE, storageOk |-> TRUE, env |-> FALSE, soil |-> FALSE],
    [pump |-> TRUE, storage |-> FALSE, storageOk |-> FALSE, env |-> TRUE, soil |-> TRUE],
    [pump |-> FALSE, storage |-> TRUE, storageOk |-> TRUE, env |-> TRUE, soil |-> TRUE] }

ControllerInit ==
  /\ hw \in HwConfigs
  /\ now = BootMs
  /\ ctl \in {CtlInit(u) : u \in {0, 7}}
  /\ pump = PumpInit
  /\ soil = SoilInit
  /\ store \in Blobs
  /\ task = [pc |-> "none", readSuccess |-> FALSE]
  /\ mutex = "free"
  /\ fgPc = "idle"
  /\ ev = Quiet

Init ==
  /\ ControllerInit
  /\ mb = ModbusClientInit(TRUE, <<>>, <<>>)

Tick ==
  /\ now + TickMs <= MaxTime
  /\ now' = now + TickMs
  /\ ev' = Quiet
  /\ UNCHANGED <<mb, hw, ctl, pump, soil, store, task, mutex, fgPc>>

\* the outcomes initialize() can meet: none when already initialized
EnvInitOutcomes == IF ctl.initialized \/ ~hw.env THEN {TRUE} ELSE EnvOutcomes

SoilInitOutcomes == IF ctl.initialized \/ ~hw.soil THEN {TRUE} ELSE BOOLEAN

InitializeCall ==
  /\ fgPc = "idle"
  /\ \E envInitOk \in EnvInitOutcomes, soilXferOk \in SoilInitOutcomes :
       LET w == Initialize(World, envInitOk, soilXferOk) IN
       /\ Commit(w)
       /\ ev' = Quiet
  /\ UNCHANGED <<mb, hw, now, fgPc>>

\* update() up to the point where it either finishes or blocks in the
\* availability probe (a Modbus exchange) while holding the mutex
UpdateBegin ==
  /\ fgPc = "idle"
  /\ \E envInitOk \in EnvInitOutcomes, soilXferOk \in SoilInitOutcomes :
       LET w0 == Initialize(World, envInitOk, soilXferOk) IN
       IF ~w0.ctl.initialized
       THEN /\ Commit(w0) /\ fgPc' = "idle"
            /\ ev' = Ev("update", "uninit", 0, FALSE, FALSE)
       ELSE
         LET w1 == [w0 EXCEPT !.pump = PumpCheckTimedRun(w0.pump, now)] IN
         IF ~w1.ctl.newSensorDataAvailable
         THEN /\ Commit(Watchdog(w1, now).w) /\ fgPc' = "idle"
              /\ ev' = Ev("update", "nodata", 0, FALSE, Watchdog(w1, now).wd)
         ELSE IF w1.mutex # "free"
         THEN /\ Commit(Watchdog(w1, now).w) /\ fgPc' = "idle"
              /\ ev' = Ev("update", "locked", 0, FALSE, Watchdog(w1, now).wd)
         ELSE IF hw.soil
         THEN /\ Commit([w1 EXCEPT !.mutex = "fg"]) /\ fgPc' = "probing"
              /\ ev' = Quiet
         ELSE LET r == DecisionPass(w1, FALSE, w1.soil, now) IN
              /\ Commit(r.w) /\ fgPc' = "idle"
              /\ ev' = Ev("update", r.out, 0, r.halt, r.wd)
  /\ UNCHANGED <<mb, hw, now>>

UpdateFinish ==
  /\ fgPc = "probing"
  /\ \E xferOk \in BOOLEAN :
       LET a == SoilIsAvailable(soil, xferOk)
           r == DecisionPass(World, a.ok, a.s, now)
       IN /\ Commit(r.w) /\ ev' = Ev("update", r.out, 0, r.halt, r.wd)
  /\ fgPc' = "idle"
  /\ UNCHANGED <<mb, hw, now>>

ManualWatering ==
  /\ fgPc = "idle"
  /\ \E d \in ManualDurations, envInitOk \in EnvInitOutcomes,
        soilXferOk \in SoilInitOutcomes :
       LET r == ManualWateringOp(World, d, envInitOk, soilXferOk, now) IN
       /\ Commit(r.w)
       /\ ev' = Ev("manualWatering", IF r.ok THEN "ok" ELSE "fail", d,
                   FALSE, FALSE)
  /\ UNCHANGED <<mb, hw, now, fgPc>>

StopWatering ==
  /\ fgPc = "idle"
  /\ LET r == StopWateringOp(World) IN
       /\ Commit(r.w)
       /\ ev' = Quiet
  /\ UNCHANGED <<mb, hw, now, fgPc>>

EnableWatering ==
  /\ fgPc = "idle"
  /\ hw.storage
  /\ \E enable \in BOOLEAN :
       /\ Commit(StoreConfig([World EXCEPT !.ctl.wateringEnabled = enable]))
       /\ ev' = Quiet
  /\ UNCHANGED <<mb, hw, now, fgPc>>

SetMoistureThresholdLowOp(w, threshold) ==
  IF threshold >= 0 /\ threshold <= ThresholdMax
  THEN StoreConfig([w EXCEPT !.ctl.moistureThresholdLow = threshold])
  ELSE w

SetMoistureThresholdHighOp(w, threshold) ==
  IF threshold >= 0 /\ threshold <= ThresholdMax
  THEN StoreConfig([w EXCEPT !.ctl.moistureThresholdHigh = threshold])
  ELSE w

SetWateringDurationOp_ZeroAllowed(w, seconds) ==
  IF seconds >= 0 /\ seconds <= MaxWateringDuration
  THEN StoreConfig([w EXCEPT !.ctl.wateringDuration = seconds])
  ELSE w

SetWateringDurationOp(w, seconds) ==
  IF seconds > 0 /\ seconds <= MaxWateringDuration
  THEN StoreConfig([w EXCEPT !.ctl.wateringDuration = seconds])
  ELSE w

SetMoistureThresholdLow ==
  /\ fgPc = "idle"
  /\ hw.storage
  /\ \E v \in ThresholdInputs :
       /\ Commit(SetMoistureThresholdLowOp(World, v))
       /\ ev' = Quiet
  /\ UNCHANGED <<mb, hw, now, fgPc>>

\* ------------------------------------------------------------ sensorTask
\* one loop iteration: wake, read the environmental sensor and the soil
\* sensor (each if present), then take the mutex (100 ms wait), publish the
\* two flags, give, and sleep until the next period
TaskRead ==
  /\ task.pc = "read"
  /\ \E envOk \in (IF hw.env THEN EnvOutcomes ELSE {TRUE}),
        x \in (IF hw.soil THEN BusOutcomes(soil) ELSE {NoData("transport")}) :
       LET envSuccess == IF hw.env THEN envOk ELSE TRUE
           r == IF hw.soil THEN SoilRead(soil, x, now)
                ELSE [s |-> soil, ok |-> TRUE]
       IN /\ soil' = r.s
          /\ task' = [task EXCEPT !.pc = "publish",
                                  !.readSuccess = envSuccess /\ r.ok]
  /\ ev' = Quiet
  /\ UNCHANGED <<mb, hw, now, ctl, pump, store, mutex, fgPc>>

\* xSemaphoreTake(sensorDataMutex, 100 ms): taken when free; when the
\* foreground holds it across its probe the wait times out and the
\* publication is skipped
TaskTake ==
  /\ task.pc = "publish"
  /\ IF mutex = "free"
     THEN /\ mutex' = "task"
          /\ task' = [task EXCEPT !.pc = "locked"]
     ELSE /\ mutex' = mutex
          /\ task' = [task EXCEPT !.pc = "read"]
  /\ ev' = Quiet
  /\ UNCHANGED <<mb, hw, now, ctl, pump, soil, store, fgPc>>

TaskPublish ==
  /\ task.pc = "locked"
  /\ ctl' = [ctl EXCEPT !.sensorReadSuccess = task.readSuccess,
                        !.newSensorDataAvailable = TRUE]
  /\ mutex' = "free"
  /\ task' = [task EXCEPT !.pc = "read"]
  /\ ev' = Quiet
  /\ UNCHANGED <<mb, hw, now, pump, soil, store, fgPc>>

Next ==
  \/ Tick
  \/ InitializeCall
  \/ UpdateBegin
  \/ UpdateFinish
  \/ ManualWatering
  \/ StopWatering
  \/ EnableWatering
  \/ SetMoistureThresholdLow
  \/ TaskRead
  \/ TaskTake
  \/ TaskPublish

Spec == Init /\ [][Next]_vars

\* The controller left to itself: loop() keeps calling update(), the sensor
\* task keeps polling and millis() keeps advancing up to the horizon, where
\* the passes go on at the last instant explored.
RecoveryNext ==
  \/ Tick
  \/ UpdateBegin
  \/ UpdateFinish
  \/ TaskRead
  \/ TaskTake
  \/ TaskPublish

RecoverySpec ==
  /\ Init
  /\ [][RecoveryNext]_vars
  /\ WF_vars(Tick)
  /\ WF_vars(UpdateBegin)
  /\ WF_vars(UpdateFinish)
  /\ WF_vars(TaskRead)
  /\ WF_vars(TaskTake)
  /\ WF_vars(TaskPublish)

TimestampsInPast ==
  /\ pump.startTime <= now
  /\ ctl.initialized => ctl.lastValidSensorTime <= now
  /\ ctl.lastWateringTime <= now
  /\ soil.validAt <= now

\* ------------------------------------------- set-up and configuration calls
\* The calls the web interface and setup() make on the controller and on the
\* transport, each observed through ev (controller) or mb.call (transport).
\* saveConfiguration() dereferences dataStorage unconditionally, so the
\* mutators are called on controllers that were given a storage.

SetMinWateringIntervalOp(w, seconds) ==
  IF seconds > 0
  THEN StoreConfig([w EXCEPT !.ctl.minWateringInterval = seconds])
  ELSE w

Observed(op, out, arg) == Ev(op, out, arg, FALSE, FALSE)

InitializeObserved ==
  /\ fgPc = "idle"
  /\ \E envInitOk \in BOOLEAN, soilXferOk \in BOOLEAN :
       LET w == Initialize(World, envInitOk, soilXferOk) IN
       /\ Commit(w)
       /\ ev' = Observed("initialize",
                         IF w.ctl.initialized THEN "ok" ELSE "fail", 0)
  /\ UNCHANGED <<mb, hw, now, fgPc>>

SetMoistureThresholdLowCall ==
  /\ hw.storage
  /\ \E v \in LowThresholdInputs :
       /\ Commit(SetMoistureThresholdLowOp(World, v))
       /\ ev' = Observed("setMoistureThresholdLow", "-", v)
  /\ UNCHANGED <<mb, hw, now, fgPc>>

SetMoistureThresholdHighCall ==
  /\ hw.storage
  /\ \E v \in HighThresholdInputs :
       /\ Commit(SetMoistureThresholdHighOp(World, v))
       /\ ev' = Observed("setMoistureThresholdHigh", "-", v)
  /\ UNCHANGED <<mb, hw, now, fgPc>>

SetWateringDurationCall ==
  /\ hw.storage
  /\ \E v \in DurationInputs :
       /\ Commit(SetWateringDurationOp(World, v))
       /\ ev' = Observed("setWateringDuration", "-", v)
  /\ UNCHANGED <<mb, hw, now, fgPc>>

SetMinWateringIntervalCall ==
  /\ hw.storage
  /\ \E v \in IntervalInputs :
       /\ Commit(SetMinWateringIntervalOp(World, v))
       /\ ev' = Observed("setMinWateringInterval", "-", v)
  /\ UNCHANGED <<mb, hw, now, fgPc>>

\* SP3485ModbusClient::initialize() called directly
ModbusInitializeCall ==
  /\ LET r == ModbusInitialize(mb) IN
       mb' = [r.m EXCEPT !.call = [NoCall EXCEPT !.op = "initialize",
                                                 !.ret = r.ok,
                                                 !.pinOps = r.pinOps,
                                                 !.drained = r.drained]]
  /\ UNCHANGED <<hw, now, ctl, pump, soil, store, task, mutex, fgPc, ev>>

SetupInit ==
  /\ ControllerInit
  /\ mb \in {ModbusClientInit(TRUE, p, <<>>) : p \in PendingBytes}
            \cup {ModbusClientInit(FALSE, <<>>, <<>>)}

SetupNext ==
  \/ InitializeObserved
  \/ ManualWatering
  \/ SetMoistureThresholdLowCall
  \/ SetMoistureThresholdHighCall
  \/ SetWateringDurationCall
  \/ SetMinWateringIntervalCall
  \/ ModbusInitializeCall

SetupSpec == SetupInit /\ [][SetupNext]_vars

\* --------------------------------------------------- transport exchanges
\* What the line delivers after a request.  The device answers with a
\* frame whose CRC is the Modbus CRC-16; line noise adds, drops or changes
\* bytes.

\* a well-formed read response of the device at address a for count registers
ValidFrame(a, count) ==
  LET body == <<a, FC_READ, 2 * count>> \o SubSeq(DeviceData, 1, 2 * count)
      crc == CalculateCRC(body, Len(body))
  IN body \o <<crc % 256, crc \div 256>>

\* a Modbus exception response to a read
ExceptionFrame(a, code) ==
  LET body == <<a, FC_READ_EXCEPTION, code>>
      crc == CalculateCRC(body, 3)
  IN body \o <<crc % 256, crc \div 256>>

\* a complete frame with a valid CRC whose function code is not 0x03
WrongFunctionFrame(a, count) ==
  LET body == <<a, FC_READ + 1, 2 * count>>
              \o SubSeq(DeviceData, 1, 2 * count)
      crc == CalculateCRC(body, Len(body))
  IN body \o <<crc % 256, crc \div 256>>

\* the valid frame with its first data byte changed on the line
CorruptedFrames(a, count) ==
  IF count > 0
  THEN {[ValidFrame(a, count) EXCEPT ![4] = (@ + 1) % 256]}
  ELSE {}

GarbageBytes(a) == {0, a, FC_READ, 255}

GarbagePrefixes(a) ==
  {<<>>} \cup {<<g>> : g \in GarbageBytes(a)}
         \cup {<<g1, g2>> : g1 \in GarbageBytes(a), g2 \in GarbageBytes(a)}

ReadArrivals(a, count) ==
  LET f == ValidFrame(a, count) IN
  {p \o f : p \in GarbagePrefixes(a)}
  \cup { <<>>,
         <<0, 0, 0>> \o f,
         f \o <<0>>,
         f \o <<255>>,
         SubSeq(f, 1, Len(f) - 1),
         [f EXCEPT ![Len(f)] = (@ + 1) % 256],
         ExceptionFrame(a, ExceptionCode),
         ValidFrame(a + 1, count),
         ValidFrame(a, count + 1),
         WrongFunctionFrame(a, count) }
  \cup CorruptedFrames(a, count)

WriteArrivals(request) ==
  { request,
    <<>>,
    SubSeq(request, 1, 7),
    request \o <<0>>,
    [request EXCEPT ![5] = (@ + 1) % 256],
    [request EXCEPT ![8] = (@ + 1) % 256] }

\* a call that fails before the request is written gets no answer
ReadAnswers(m, a, count) ==
  IF ~ModbusInitialize(m).ok \/ count > MAX_REGISTER_COUNT THEN {<<>>}
  ELSE ReadArrivals(a, count)

ReadHoldingRegistersCall ==
  /\ mb.calls < MaxCalls
  /\ \E q \in ReadCalls :
       \E arrived \in ReadAnswers(mb, q[1], q[3]) :
          mb' = [ReadHoldingRegisters(mb, q[1], q[2], q[3], arrived)
                   EXCEPT !.calls = @ + 1]
  /\ UNCHANGED <<hw, now, ctl, pump, soil, store, task, mutex, fgPc, ev>>

WriteSingleRegisterCall ==
  /\ mb.calls < MaxCalls
  /\ \E q \in WriteCalls :
       \E arrived \in (IF ModbusInitialize(mb).ok
                       THEN WriteArrivals(WriteRequest(q[1], q[2], q[3]))
                       ELSE {<<>>}) :
          mb' = [WriteSingleRegister(mb, q[1], q[2], q[3], arrived)
                   EXCEPT !.calls = @ + 1]
  /\ UNCHANGED <<hw, now, ctl, pump, soil, store, task, mutex, fgPc, ev>>

\* the controller side is left as constructed while the transport is driven
ControllerIdle ==
  /\ ControllerInit
  /\ hw.pump /\ hw.storageOk /\ hw.env /\ hw.soil
  /\ ctl.lastValidSensorTime = 0
  /\ store = <<>>

ModbusInit ==
  /\ ControllerIdle
  /\ mb \in {ModbusClientInit(TRUE, p, CallerBuffer) : p \in PendingBytes}
            \cup {ModbusClientInit(FALSE, <<>>, CallerBuffer)}

ModbusNext ==
  \/ ModbusInitializeCall
  \/ ReadHoldingRegistersCall
  \/ WriteSingleRegisterCall

ModbusSpec == ModbusInit /\ [][ModbusNext]_vars

\* ------------------------------------------------------ receive deadline
\* One exchange step by step: the request goes out, the bytes of the answer
\* arrive one at a time or not at all, the receive loop collects what is
\* available and millis() advances.  The call record holds the loop's
\* locals (startTime, the bytes collected in raw, the number wanted) and
\* line, the bytes the device has still to deliver.

IdleCall ==
  [op |-> "none", pc |-> "idle", a |-> 0, r |-> 0, c |-> 0, startTime |-> 0,
   raw |-> <<>>, wanted |-> 0, line |-> <<>>, ret |-> FALSE]

\* mutant: the receive loop waits for the bytes alone
LoopContinues_NoDeadline(call, timeout, t) == Len(call.raw) < call.wanted

\* the condition of both receive loops:
\* bytesRead < wanted && millis() - startTime < timeout
LoopContinues(call, timeout, t) ==
  Len(call.raw) < call.wanted /\ USub(t, call.startTime) < timeout

\* what the device and the line may deliver after a read request
ReadLines(a, count) ==
  LET f == ValidFrame(a, count) IN
  {<<>>, f, <<0>> \o f, SubSeq(f, 1, 3), f \o <<0, 0>>}

\* what the device and the line may deliver after a write request
WriteLines(request) == {<<>>, request, SubSeq(request, 1, 7)}

\* a call that returns before anything is sent
ReturnedEarly(m, op, a, r, c) ==
  [m EXCEPT !.calls = @ + 1,
            !.call = [IdleCall EXCEPT !.op = op, !.pc = "returned", !.a = a,
                                      !.r = r, !.c = c]]

\* readHoldingRegisters() up to the start of its receive loop
ReadBegin ==
  /\ mb.call.pc \in {"idle", "returned"}
  /\ mb.calls < MaxExchanges
  /\ \E q \in ExchangeReads :
       LET i == ModbusInitialize(mb) IN
       IF ~i.ok
       THEN mb' = ReturnedEarly([i.m EXCEPT !.errorCount = @ + 1], "read",
                                q[1], q[2], q[3])
       ELSE IF q[3] > MAX_REGISTER_COUNT
       THEN mb' = ReturnedEarly(Fail(i.m, 2), "read", q[1], q[2], q[3])
       ELSE \E line \in ReadLines(q[1], q[3]) :
              mb' = [i.m EXCEPT
                       !.rx = <<>>,
                       !.call = [IdleCall EXCEPT
                                   !.op = "read", !.pc = "receiving",
                                   !.a = q[1], !.r = q[2], !.c = q[3],
                                   !.startTime = now,
                                   !.wanted = ((5 + q[3] * 2) % 256) + 2,
                                   !.line = line]]
  /\ UNCHANGED <<hw, now, ctl, pump, soil, store, task, mutex, fgPc, ev>>

\* writeSingleRegister() up to the start of its receive loop
WriteBegin ==
  /\ mb.call.pc \in {"idle", "returned"}
  /\ mb.calls < MaxExchanges
  /\ \E q \in WriteCalls :
       LET i == ModbusInitialize(mb) IN
       IF ~i.ok
       THEN mb' = ReturnedEarly([i.m EXCEPT !.errorCount = @ + 1], "write",
                                q[1], q[2], q[3])
       ELSE \E line \in WriteLines(WriteRequest(q[1], q[2], q[3])) :
              mb' = [i.m EXCEPT
                       !.rx = <<>>,
                       !.call = [IdleCall EXCEPT
                                   !.op = "write", !.pc = "receiving",
                                   !.a = q[1], !.r = q[2], !.c = q[3],
                                   !.startTime = now,
                                   !.wanted = WRITE_RESPONSE_LENGTH,
                                   !.line = line]]
  /\ UNCHANGED <<hw, now, ctl, pump, soil, store, task, mutex, fgPc, ev>>

\* the next byte of the answer reaches the serial receive buffer
ByteArrives ==
  /\ mb.call.pc = "receiving"
  /\ mb.call.line # <<>>
  /\ mb' = [mb EXCEPT !.rx = Append(@, Head(mb.call.line)),
                      !.call.line = Tail(@)]
  /\ UNCHANGED <<hw, now, ctl, pump, soil, store, task, mutex, fgPc, ev>>

\* an iteration of the receive loop that finds a byte available; one that
\* finds none changes nothing
ReceiveByte ==
  /\ mb.call.pc = "receiving"
  /\ LoopContinues(mb.call, mb.timeout, now)
  /\ mb.rx # <<>>
  /\ mb' = [mb EXCEPT !.rx = Tail(@),
                      !.call.raw = Append(@, Head(mb.rx))]
  /\ UNCHANGED <<hw, now, ctl, pump, soil, store, task, mutex, fgPc, ev>>

\* the loop condition is false: the call validates what it has and returns
ReceiveExit ==
  /\ mb.call.pc = "receiving"
  /\ ~LoopContinues(mb.call, mb.timeout, now)
  /\ LET m == IF mb.call.op = "read"
              THEN ParseReadResponse(mb, mb.call.a, mb.call.c, mb.call.raw)
              ELSE ParseWriteResponse(mb,
                     WriteRequest(mb.call.a, mb.call.r, mb.call.c),
                     mb.call.raw)
     IN mb' = [m EXCEPT !.calls = @ + 1,
                        !.call.pc = "returned",
                        !.call.ret = (m.errorCount = mb.errorCount)]
  /\ UNCHANGED <<hw, now, ctl, pump, soil, store, task, mutex, fgPc, ev>>

\* millis() advances; followed while a receive loop has not passed its
\* deadline, after which the time no longer matters to it
Millis ==
  /\ mb.call.pc = "receiving"
  /\ USub(now, mb.call.startTime) < mb.timeout
  /\ now' = now + PollStepMs
  /\ UNCHANGED <<mb, hw, ctl, pump, soil, store, task, mutex, fgPc, ev>>

\* setTimeout()
SetTimeoutCall ==
  /\ mb.call.pc = "idle"
  /\ \E timeoutMs \in TimeoutInputs : mb' = [mb EXCEPT !.timeout = timeoutMs]
  /\ UNCHANGED <<hw, now, ctl, pump, soil, store, task, mutex, fgPc, ev>>

ReceiveInit ==
  /\ ControllerIdle
  /\ mb \in {[ModbusClientInit(serial, <<>>, CallerBuffer)
                EXCEPT !.call = IdleCall] : serial \in BOOLEAN}

ReceiveNext ==
  \/ SetTimeoutCall
  \/ ReadBegin
  \/ WriteBegin
  \/ ByteArrives
  \/ ReceiveByte
  \/ ReceiveExit
  \/ Millis

\* the receive loop is running code and millis() a hardware timer: both
\* keep going; whether bytes arrive is up to the line
ReceiveSpec ==
  /\ ReceiveInit
  /\ [][ReceiveNext]_vars
  /\ WF_vars(ReceiveByte)
  /\ WF_vars(ReceiveExit)
  /\ WF_vars(Millis)

\* ------------------------------------------------- soil sensor adapter
\* ModbusSoilSensor in full: the eight values behind the getters, the
\* valid ranges and read() statement by statement, so that the foreground's
\* getters can run between two of its assignments.  Moisture, temperature,
\* humidity and pH are held in tenths, as the registers deliver them (the
\* calibration factors stay at their constructed 1.0); EC and N, P, K are
\* the register values.  The transport is reduced to the outcome of each
\* exchange.

SoilParameters ==
  {"moisture", "temperature", "humidity", "ph", "ec", "nitrogen",
   "phosphorus", "potassium"}

\* the order in which read() assigns the members
AssignOrder ==
  <<"moisture", "temperature", "ph", "ec", "nitrogen", "phosphorus",
    "potassium", "humidity">>

ValidRange(minVal, maxVal) == [min |-> minVal, max |-> maxVal, isSet |-> TRUE]

\* the ranges the constructor installs
DefaultValidRanges ==
  [p \in SoilParameters |->
     CASE p = "moisture" -> ValidRange(0, 1000)
       [] p = "temperature" -> ValidRange(-400, 800)
       [] p = "humidity" -> ValidRange(0, 1000)
       [] p = "ph" -> ValidRange(30, 90)
       [] p = "ec" -> ValidRange(0, 5000)
       [] OTHER -> ValidRange(0, 3000)]

NoRead ==
  [pc |-> "idle", kind |-> "none", regs |-> <<>>, k |-> 0,
   before |-> [p \in SoilParameters |-> 0], ret |-> FALSE]

ModbusSoilSensorInit ==
  [initialized |-> FALSE, lastError |-> 0,
   values |-> [p \in SoilParameters |-> 0],
   validRanges |-> DefaultValidRanges, call |-> NoRead, reads |-> 0,
   moistureCalibrationFactor |-> [num |-> 1, den |-> 1]]

\* static_cast<int16_t> of a register
Int16(u) == IF u >= 32768 THEN u - 65536 ELSE u

\* the value read() assigns to member p from the eight registers
Converted(regs, p) ==
  CASE p = "moisture" -> regs[1]
    [] p = "temperature" -> Int16(regs[2])
    [] p = "ph" -> regs[3]
    [] p = "ec" -> regs[4]
    [] p = "nitrogen" -> regs[5]
    [] p = "phosphorus" -> regs[6]
    [] p = "potassium" -> regs[7]
    [] OTHER -> regs[8]

\* the member as read() stores it: the moisture is multiplied by
\* moistureCalibrationFactor, a fraction num/den, and kept in tenths
Calibrated(s, p, value) ==
  IF p = "moisture"
  THEN (value * s.moistureCalibrationFactor.num)
       \div s.moistureCalibrationFactor.den
  ELSE value

\* isWithinValidRange()
IsWithinValidRange(s, parameter, value) ==
  LET it == s.validRanges[parameter] IN
  ~it.isSet \/ (value >= it.min /\ value <= it.max)

\* mutant: the conductivity is validated as well
ValidatedParameters_WithEC ==
  {"moisture", "temperature", "humidity", "ph", "ec"}

\* the members read() validates
ValidatedParameters == {"moisture", "temperature", "humidity", "ph"}

\* setValidRange()
SetValidRange(s, parameter, minValue, maxValue) ==
  IF minValue >= maxValue
  THEN [s EXCEPT !.lastError = 15]
  ELSE [s EXCEPT !.validRanges[parameter] = ValidRange(minValue, maxValue)]

\* what the transport can answer to read(): for a sensor not yet
\* initialized the client's initialize() or the one-register probe may
\* fail; the eight-register exchange fails or delivers a register block
SensorExchanges(s) ==
  (IF s.initialized THEN {} ELSE {[kind |-> k, regs |-> <<>>] :
                                    k \in {"noclient", "noprobe"}})
  \cup {[kind |-> "transport", regs |-> <<>>]}
  \cup {[kind |-> "data", regs |-> regs] : regs \in RegisterBlocks}

\* read() returning false before any member is assigned
ReadFailed(s, kind, code) ==
  [s EXCEPT !.lastError = code, !.reads = @ + 1,
            !.call = [NoRead EXCEPT !.pc = "returned", !.kind = kind,
                                    !.before = s.values]]

\* read() called by the sensor task, up to its first assignment
SensorReadBegin ==
  /\ soil.call.pc \in {"idle", "returned"}
  /\ soil.reads < MaxReads
  /\ \E x \in SensorExchanges(soil) :
       soil' = CASE x.kind = "noclient" -> ReadFailed(soil, x.kind, 2)
                 [] x.kind = "noprobe" -> ReadFailed(soil, x.kind, 3)
                 [] x.kind = "transport" ->
                      ReadFailed([soil EXCEPT !.initialized = TRUE],
                                 x.kind, 4)
                 [] OTHER ->
                      [soil EXCEPT
                         !.initialized = TRUE,
                         !.lastError = IF soil.initialized THEN @ ELSE 0,
                         !.call = [NoRead EXCEPT
                                     !.pc = "assigning", !.kind = x.kind,
                                     !.regs = x.regs, !.k = 1,
                                     !.before = soil.values]]
  /\ UNCHANGED <<mb, hw, now, ctl, pump, store, task, mutex, fgPc, ev>>

\* the next of the eight assignments of read()
SensorReadAssign ==
  /\ soil.call.pc = "assigning"
  /\ soil.call.k <= Len(AssignOrder)
  /\ LET p == AssignOrder[soil.call.k] IN
     soil' = [soil EXCEPT !.values[p] =
                            Calibrated(soil, p, Converted(soil.call.regs, p)),
                          !.call.k = @ + 1]
  /\ UNCHANGED <<mb, hw, now, ctl, pump, store, task, mutex, fgPc, ev>>

\* the range validation that ends read()
SensorReadValidate ==
  /\ soil.call.pc = "assigning"
  /\ soil.call.k > Len(AssignOrder)
  /\ LET ok == \A p \in ValidatedParameters :
                 IsWithinValidRange(soil, p, soil.values[p])
     IN soil' = [soil EXCEPT !.lastError = IF ok THEN 0 ELSE 5,
                             !.reads = @ + 1,
                             !.call.pc = "returned",
                             !.call.ret = ok]
  /\ UNCHANGED <<mb, hw, now, ctl, pump, store, task, mutex, fgPc, ev>>

\* setValidRange() called while the sensor is being set up
SetValidRangeCall ==
  /\ soil.call.pc = "idle"
  /\ \E q \in RangeInputs : soil' = SetValidRange(soil, q[1], q[2], q[3])
  /\ UNCHANGED <<mb, hw, now, ctl, pump, store, task, mutex, fgPc, ev>>

\* the values of the last read() that returned, or the constructed ones
Completed(s) == IF s.call.pc = "assigning" THEN s.call.before ELSE s.values

\* the foreground reads members through the getters; seen is what it got,
\* completed what the last read() that returned had left
Getters(op, members) ==
  [op |-> op, seen |-> [p \in members |-> soil.values[p]],
   completed |-> [p \in members |-> Completed(soil)[p]]]

\* processReadings(): soilSensor->getMoisture()
GetMoisture ==
  /\ ev' = Getters("processReadings", {"moisture"})
  /\ ev' # ev
  /\ UNCHANGED <<mb, hw, now, ctl, pump, soil, store, task, mutex, fgPc>>

\* logSensorData(): seven getters of the soil sensor
LogSensorData ==
  /\ ev' = Getters("logSensorData", SoilParameters \ {"humidity"})
  /\ ev' # ev
  /\ UNCHANGED <<mb, hw, now, ctl, pump, soil, store, task, mutex, fgPc>>

SensorSpecInit ==
  /\ hw = [pump |-> TRUE, storage |-> TRUE, storageOk |-> TRUE,
           env |-> TRUE, soil |-> TRUE]
  /\ now = BootMs
  /\ ctl = CtlInit(0)
  /\ pump = PumpInit
  /\ soil = ModbusSoilSensorInit
  /\ store = <<>>
  /\ task = [pc |-> "none", readSuccess |-> FALSE]
  /\ mutex = "free"
  /\ fgPc = "idle"
  /\ ev = Quiet
  /\ mb = ModbusClientInit(TRUE, <<>>, <<>>)

SensorNext ==
  \/ SetValidRangeCall
  \/ SensorReadBegin
  \/ SensorReadAssign
  \/ SensorReadValidate
  \/ GetMoisture
  \/ LogSensorData

SensorSpec == SensorSpecInit /\ [][SensorNext]_vars

\* ------------------------------------------------------------ calibration
\* calibrateMoisture() next to read().  x is what the transport does for the
\* call: kind as in SensorExchanges, raw the moisture register delivered,
\* written whether the write of the factor to the sensor succeeded.  The
\* reference value is in tenths of a percent like the register, so the
\* factor referenceValue / (raw / 10) is the fraction referenceValue / raw.

\* mutant: the factor is computed upside down
CalibrateMoisture_Inverted(s, x, referenceValue) ==
  IF ~s.initialized /\ x.kind = "noclient"
  THEN [s |-> [s EXCEPT !.lastError = 2], ok |-> FALSE]
  ELSE IF ~s.initialized /\ x.kind = "noprobe"
  THEN [s |-> [s EXCEPT !.lastError = 3], ok |-> FALSE]
  ELSE IF x.kind # "data"
  THEN [s |-> [s EXCEPT !.initialized = TRUE, !.lastError = 6], ok |-> FALSE]
  ELSE IF x.raw * 10 < 1
  THEN [s |-> [s EXCEPT !.initialized = TRUE, !.lastError = 7], ok |-> FALSE]
  ELSE [s |-> [s EXCEPT !.initialized = TRUE,
                        !.moistureCalibrationFactor =
                           [num |-> x.raw, den |-> referenceValue],
                        !.lastError = IF x.written THEN 0 ELSE 8],
        ok |-> TRUE]

\* calibrateMoisture(): currentRawValue < 0.01f is raw / 10 < 1 / 100
CalibrateMoisture(s, x, referenceValue) ==
  IF ~s.initialized /\ x.kind = "noclient"
  THEN [s |-> [s EXCEPT !.lastError = 2], ok |-> FALSE]
  ELSE IF ~s.initialized /\ x.kind = "noprobe"
  THEN [s |-> [s EXCEPT !.lastError = 3], ok |-> FALSE]
  ELSE IF x.kind # "data"
  THEN [s |-> [s EXCEPT !.initialized = TRUE, !.lastError = 6], ok |-> FALSE]
  ELSE IF x.raw * 10 < 1
  THEN [s |-> [s EXCEPT !.initialized = TRUE, !.lastError = 7], ok |-> FALSE]
  ELSE [s |-> [s EXCEPT !.initialized = TRUE,
                        !.moistureCalibrationFactor =
                           [num |-> referenceValue, den |-> x.raw],
                        !.lastError = IF x.written THEN 0 ELSE 8],
        ok |-> TRUE]

\* what the transport can do for calibrateMoisture()
CalibrationExchanges(s) ==
  (IF s.initialized THEN {} ELSE {[kind |-> k, raw |-> 0, written |-> FALSE] :
                                    k \in {"noclient", "noprobe"}})
  \cup {[kind |-> "transport", raw |-> 0, written |-> FALSE]}
  \cup {[kind |-> "data", raw |-> raw, written |-> written] :
          raw \in CalibrationRaws, written \in BOOLEAN}

\* calibrateMoisture() called between two reads; ev keeps the call, its
\* result and the factor it found
CalibrateMoistureCall ==
  /\ soil.call.pc \in {"idle", "returned"}
  /\ \E x \in CalibrationExchanges(soil), referenceValue \in ReferenceInputs :
       LET r == CalibrateMoisture(soil, x, referenceValue) IN
       /\ soil' = [r.s EXCEPT !.call = NoRead]
       /\ ev' = [op |-> "calibrateMoisture", kind |-> x.kind, raw |-> x.raw,
                 written |-> x.written, referenceValue |-> referenceValue,
                 factor |-> soil.moistureCalibrationFactor, ret |-> r.ok]
  /\ UNCHANGED <<mb, hw, now, ctl, pump, store, task, mutex, fgPc>>

CalibrationNext ==
  \/ CalibrateMoistureCall
  \/ SensorReadBegin
  \/ SensorReadAssign
  \/ SensorReadValidate

CalibrationSpec == SensorSpecInit /\ [][CalibrationNext]_vars

\* ----------------------------------------------------- direction control
\* One exchange operation by operation on the serial line and the
\* direction pin: drain, setTransmitMode(), write, flush, setReceiveMode(),
\* then the receive loop of the section above.  The call record adds the
\* request bytes written so far and whether flush() has returned.

DirectionIdleCall ==
  [op |-> "none", pc |-> "idle", a |-> 0, r |-> 0, c |-> 0, startTime |-> 0,
   raw |-> <<>>, wanted |-> 0, line |-> <<>>, ret |-> FALSE,
   wrote |-> <<>>, flushed |-> FALSE]

\* mutant: the direction pin is left as it was
SetReceiveMode_Skipped(m) == m

\* setTransmitMode(): digitalWrite(dePin, HIGH)
SetTransmitMode(m) == [m EXCEPT !.de = "high"]

\* setReceiveMode(): digitalWrite(dePin, LOW)
SetReceiveMode(m) == [m EXCEPT !.de = "low"]

\* the request frame of the call in progress
RequestOf(call) ==
  IF call.op = "read" THEN ReadRequest(call.a, call.r, call.c)
  ELSE WriteRequest(call.a, call.r, call.c)

\* a call that returns before the line is touched
DirectionReturnedEarly(m, op, q) ==
  [m EXCEPT !.calls = @ + 1,
            !.call = [DirectionIdleCall EXCEPT !.op = op, !.pc = "returned",
                                               !.a = q[1], !.r = q[2],
                                               !.c = q[3]]]

\* a call that has built its request and emptied the receive buffer
DirectionDrained(m, op, q) ==
  [m EXCEPT !.rx = <<>>,
            !.call = [DirectionIdleCall EXCEPT !.op = op, !.pc = "drained",
                                               !.a = q[1], !.r = q[2],
                                               !.c = q[3]]]

\* readHoldingRegisters() up to the end of its drain loop
DirectionReadBegin ==
  /\ mb.call.pc \in {"idle", "returned"}
  /\ mb.calls < MaxExchanges
  /\ \E q \in ExchangeReads :
       LET i == ModbusInitialize(mb) IN
       mb' = IF ~i.ok
             THEN DirectionReturnedEarly([i.m EXCEPT !.errorCount = @ + 1],
                                         "read", q)
             ELSE IF q[3] > MAX_REGISTER_COUNT
             THEN DirectionReturnedEarly(Fail(i.m, 2), "read", q)
             ELSE DirectionDrained(i.m, "read", q)
  /\ UNCHANGED <<hw, now, ctl, pump, soil, store, task, mutex, fgPc, ev>>

\* writeSingleRegister() up to the end of its drain loop
DirectionWriteBegin ==
  /\ mb.call.pc \in {"idle", "returned"}
  /\ mb.calls < MaxExchanges
  /\ \E q \in WriteCalls :
       LET i == ModbusInitialize(mb) IN
       mb' = IF ~i.ok
             THEN DirectionReturnedEarly([i.m EXCEPT !.errorCount = @ + 1],
                                         "write", q)
             ELSE DirectionDrained(i.m, "write", q)
  /\ UNCHANGED <<hw, now, ctl, pump, soil, store, task, mutex, fgPc, ev>>

\* setTransmitMode() after the drain loop
TransmitModeStep ==
  /\ mb.call.pc = "drained"
  /\ mb' = [SetTransmitMode(mb) EXCEPT !.call.pc = "transmit"]
  /\ UNCHANGED <<hw, now, ctl, pump, soil, store, task, mutex, fgPc, ev>>

\* serial->write(request, 8)
SerialWrite ==
  /\ mb.call.pc = "transmit"
  /\ mb' = [mb EXCEPT !.call.wrote = RequestOf(mb.call),
                      !.call.pc = "written"]
  /\ UNCHANGED <<hw, now, ctl, pump, soil, store, task, mutex, fgPc, ev>>

\* serial->flush() returns when the last byte has left
SerialFlush ==
  /\ mb.call.pc = "written"
  /\ mb' = [mb EXCEPT !.call.flushed = TRUE, !.call.pc = "flushed"]
  /\ UNCHANGED <<hw, now, ctl, pump, soil, store, task, mutex, fgPc, ev>>

\* setReceiveMode() and the set-up of the receive loop; the device answers
\* the request it has now received in full
ReceiveModeStep ==
  /\ mb.call.pc = "flushed"
  /\ \E line \in IF mb.call.op = "read"
                 THEN ReadLines(mb.call.a, mb.call.c)
                 ELSE WriteLines(RequestOf(mb.call)) :
       mb' = [SetReceiveMode(mb) EXCEPT
                !.call.pc = "receiving",
                !.call.startTime = now,
                !.call.wanted = IF mb.call.op = "read"
                                THEN ((5 + mb.call.c * 2) % 256) + 2
                                ELSE WRITE_RESPONSE_LENGTH,
                !.call.line = line]
  /\ UNCHANGED <<hw, now, ctl, pump, soil, store, task, mutex, fgPc, ev>>

DirectionInit ==
  /\ ControllerIdle
  /\ mb \in {[ModbusClientInit(serial, <<>>, CallerBuffer)
                EXCEPT !.call = DirectionIdleCall] : serial \in BOOLEAN}

DirectionNext ==
  \/ DirectionReadBegin
  \/ DirectionWriteBegin
  \/ TransmitModeStep
  \/ SerialWrite
  \/ SerialFlush
  \/ ReceiveModeStep
  \/ ByteArrives
  \/ ReceiveByte
  \/ ReceiveExit
  \/ Millis

DirectionSpec == DirectionInit /\ [][DirectionNext]_vars

\* ------------------------------------------------------ receive buffers
\* The receive loop of readHoldingRegisters() by its index alone: which
\* bytes arrive does not matter to where they are stored.  The call record
\* holds count, the 8-bit expectedLength, the loop index bytesRead, the
\* number of bytes the line can still deliver and the index of the last
\* store into rawResponse[].

BufferIdleCall ==
  [op |-> "none", pc |-> "idle", c |-> 0, expectedLength |-> 0,
   bytesRead |-> 0, startTime |-> 0, pending |-> 0, index |-> -1]

\* uint8_t expectedLength = 5 + (count * 2)
ExpectedLength(count) == (5 + count * 2) % 256

\* bytesRead < (expectedLength + 2) && (millis() - startTime) < timeout,
\* the sum taken in int
IndexLoopContinues(call, timeout, t) ==
  call.bytesRead < call.expectedLength + 2
  /\ USub(t, call.startTime) < timeout

\* readHoldingRegisters() with an accepted count up to its receive loop
BufferReadBegin ==
  /\ mb.call.pc \in {"idle", "returned"}
  /\ mb.calls < MaxExchanges
  /\ \E count \in 0 .. MAX_REGISTER_COUNT :
       mb' = [mb EXCEPT !.call =
                [BufferIdleCall EXCEPT !.op = "read", !.pc = "receiving",
                                       !.c = count,
                                       !.expectedLength =
                                          ExpectedLength(count),
                                       !.startTime = now,
                                       !.pending = MaxStream]]
  /\ UNCHANGED <<hw, now, ctl, pump, soil, store, task, mutex, fgPc, ev>>

\* rawResponse[bytesRead] = serial->read(); bytesRead++.  A store past the
\* end of the array is undefined: the call may go on or the program stop
BufferStore ==
  /\ mb.call.pc = "receiving"
  /\ IndexLoopContinues(mb.call, mb.timeout, now)
  /\ mb.call.pending > 0
  /\ \E after \in IF mb.call.bytesRead < RESPONSE_BUFFER_SIZE
                  THEN {"receiving"} ELSE {"receiving", "crashed"} :
       mb' = [mb EXCEPT !.call.index = mb.call.bytesRead,
                        !.call.bytesRead = @ + 1,
                        !.call.pending = @ - 1,
                        !.call.pc = after]
  /\ UNCHANGED <<hw, now, ctl, pump, soil, store, task, mutex, fgPc, ev>>

\* the loop condition is false: the call goes on to validate and returns
BufferExit ==
  /\ mb.call.pc = "receiving"
  /\ ~IndexLoopContinues(mb.call, mb.timeout, now)
  /\ mb' = [mb EXCEPT !.calls = @ + 1, !.call.pc = "returned"]
  /\ UNCHANGED <<hw, now, ctl, pump, soil, store, task, mutex, fgPc, ev>>

BufferInit ==
  /\ ControllerIdle
  /\ mb = [ModbusClientInit(TRUE, <<>>, CallerBuffer)
             EXCEPT !.call = BufferIdleCall, !.initialized = TRUE,
                    !.de = "low"]

BufferNext ==
  \/ BufferReadBegin
  \/ BufferStore
  \/ BufferExit
  \/ Millis

BufferSpec == BufferInit /\ [][BufferNext]_vars

\* ------------------------------------------------------- loop watchdog
\* main.cpp's loop() and its software watchdog.  Here fgPc is the
\* foreground's position together with the watchdog globals of main.cpp.
\* feedWatchdog() is defined but has no caller, so nothing in loop() or
\* elsewhere assigns lastLoopTime after its initialisation.

LoopGlobals ==
  [pc |-> "loop", lastLoopTime |-> 0,
   loopWatchdogTimeout |-> LOOP_WATCHDOG_TIMEOUT, watchdogEnabled |-> TRUE]

\* checkWatchdog() at time t: TRUE when it restarts the system
CheckWatchdog(g, t) ==
  g.watchdogEnabled /\ USub(t, g.lastLoopTime) > g.loopWatchdogTimeout

\* one iteration of loop(): the body takes d ms, then checkWatchdog()
LoopIteration ==
  /\ fgPc.pc = "loop"
  /\ \E d \in IterationMs :
       /\ now + d <= MaxUptime
       /\ now' = now + d
       /\ fgPc' = IF CheckWatchdog(fgPc, now + d)
                  THEN [fgPc EXCEPT !.pc = "restarting"]
                  ELSE fgPc
  /\ UNCHANGED <<mb, hw, ctl, pump, soil, store, task, mutex, ev>>

\* ESP.restart(): the globals are initialised again and millis() restarts
Restart ==
  /\ fgPc.pc = "restarting"
  /\ fgPc' = LoopGlobals
  /\ now' = 0
  /\ UNCHANGED <<mb, hw, ctl, pump, soil, store, task, mutex, ev>>

LoopInit ==
  /\ hw = [pump |-> TRUE, storage |-> TRUE, storageOk |-> TRUE,
           env |-> TRUE, soil |-> TRUE]
  /\ now = 0
  /\ ctl = CtlInit(0)
  /\ pump = PumpInit
  /\ soil = SoilInit
  /\ store = <<>>
  /\ task = [pc |-> "none", readSuccess |-> FALSE]
  /\ mutex = "free"
  /\ ev = Quiet
  /\ mb = ModbusClientInit(TRUE, <<>>, <<>>)
  /\ fgPc = LoopGlobals

LoopNext ==
  \/ LoopIteration
  \/ Restart

LoopSpec == LoopInit /\ [][LoopNext]_vars

\* ------------------------------------------------------- CRC computations
\* calculateCRC() applied to byte buffers: all sequences of up to
\* MaxCrcLen sample bytes and two published test vectors, each with every
\* length argument up to its size

RECURSIVE SeqsUpTo(_, _)
SeqsUpTo(S, n) ==
  IF n = 0 THEN {<<>>}
  ELSE LET shorter == SeqsUpTo(S, n - 1)
       IN shorter \cup {Append(s, b) : s \in shorter, b \in S}

CrcBuffers ==
  SeqsUpTo(CrcBytes, MaxCrcLen)
  \cup { <<1, 3, 0, 0, 0, 1>>, <<49, 50, 51, 52, 53, 54, 55, 56, 57>> }

\* the arguments of a pending calculateCRC() call
CrcArguments ==
  UNION {{[op |-> "arguments", buffer |-> buffer, length |-> length] :
            length \in 0 .. Len(buffer)} : buffer \in CrcBuffers}

CalculateCRCCall ==
  /\ mb.call.op = "arguments"
  /\ mb' = [mb EXCEPT !.call =
               [op |-> "calculateCRC", buffer |-> mb.call.buffer,
                length |-> mb.call.length,
                crc |-> CalculateCRC(mb.call.buffer, mb.call.length)]]
  /\ UNCHANGED <<hw, now, ctl, pump, soil, store, task, mutex, fgPc, ev>>

CrcInit ==
  /\ ControllerIdle
  /\ \E c \in CrcArguments :
       mb = [ModbusClientInit(TRUE, <<>>, CallerBuffer) EXCEPT !.call = c]

CrcSpec == CrcInit /\ [][CalculateCRCCall]_vars

\* ----------------------------------------------------------------- claims
\* a timestamp that is set and at most StaleMs old at time t
Recent(ts, t) == ts # 0 /\ t - ts <= StaleMs

\* outcomes of an update() whose decision pass called processReadings()
EvaluatedOuts == {"stale", "invalid", "started", "stopped", "noop"}

\* outcomes of an update() whose decision pass reached the thresholds
ThresholdOuts == {"started", "stopped", "noop"}

\* the pump's timed run still has time left (or is indefinite) at time t
RunNotElapsed(p, t) ==
  p.running /\ (p.runDuration = 0 \/ t - p.startTime < p.runDuration * MsPerSecond)

\* C1: at the end of every update() of an initialized controller the pump
\* is not running unless lastValidSensorTime is set and at most 30 000 ms
\* old, whatever the path through update() (no new data, mutex not taken,
\* decision pass run).
C1_PumpNeedsRecentData ==
  (ev.op = "update" /\ ctl.initialized)
    => (pump.running => Recent(ctl.lastValidSensorTime, now))

\* the safety check stopped the pump in an update() that could not take
\* the mutex
C1_Witness ==
  ev.op = "update" /\ ev.out = "locked" /\ ev.wd /\ ~pump.running

\* C2: an update() that finds no published data, with the pump running and
\* lastValidSensorTime more than 30 000 ms old, leaves the pump stopped,
\* also when the run is indefinite (runDuration 0).
C2_StaleRunStopped ==
  [][ (ev'.op = "update" /\ ev'.out = "nodata" /\ pump.running
       /\ ctl.lastValidSensorTime # 0
       /\ now - ctl.lastValidSensorTime > StaleMs)
      => ~pump'.running ]_vars

\* an indefinite run stopped by the safety check on a timestamp that was
\* set but too old, in an update() without new data
C2_Witness ==
  /\ ev.op = "update" /\ ev.out = "nodata" /\ ev.wd
  /\ pump.runDuration = 0 /\ ~pump.running
  /\ ctl.lastValidSensorTime # 0

\* C3: the automatic path starts the pump only when watering is enabled,
\* the pump is not running, the moisture is within [0,100] and at most
\* moistureThresholdLow, and the reading evaluated was produced by a
\* successful soil read at most 30 000 ms ago.
C3_AutoStartOnlyOnFreshDryReading ==
  [][ (ev'.op = "update" /\ ev'.out = "started")
      => /\ ctl.wateringEnabled
         /\ ~PumpIsRunning(pump, now).running
         /\ soil.moisture >= 0 /\ soil.moisture <= MoistureMax
         /\ soil.moisture <= ctl.moistureThresholdLow
         /\ Recent(soil.validAt, now) ]_vars

\* C4: a decision pass that reaches the thresholds with a fresh reading in
\* [0,100] at most moistureThresholdLow, watering enabled and the pump idle
\* leaves the pump running a timed run of wateringDuration seconds started
\* now, with lastWateringTime set to now.
C4_DryReadingStartsTimedRun ==
  [][ (/\ ev'.op = "update" /\ ev'.out \in ThresholdOuts
       /\ Recent(soil.validAt, now)
       /\ soil.moisture >= 0 /\ soil.moisture <= MoistureMax
       /\ soil.moisture <= ctl.moistureThresholdLow
       /\ ctl.wateringEnabled
       /\ ~PumpIsRunning(pump, now).running)
      => /\ pump'.running
         /\ pump'.runDuration = ctl.wateringDuration
         /\ pump'.startTime = now
         /\ ctl'.lastWateringTime = now ]_vars

\* C5: a decision pass that calls processReadings() while the pump is
\* running and the moisture is at least moistureThresholdHigh leaves the
\* pump stopped, whatever remains of its timed run and however the two
\* thresholds are ordered.
C5_WetReadingStopsPump ==
  [][ (/\ ev'.op = "update" /\ ev'.out \in EvaluatedOuts
       /\ PumpIsRunning(pump, now).running
       /\ soil.moisture >= ctl.moistureThresholdHigh)
      => ~pump'.running ]_vars

\* a timed run with time left was stopped early by the pass while
\* moistureThresholdLow is above moistureThresholdHigh
C5_Witness ==
  /\ ev.op = "update" /\ ev.out = "stopped" /\ ev.halt
  /\ ~pump.running /\ pump.runDuration > 0
  /\ now - pump.startTime < pump.runDuration * MsPerSecond
  /\ ctl.moistureThresholdLow > ctl.moistureThresholdHigh

\* C6: the decision pass that consumes a poll whose soil read failed
\* (sensorReadSuccess published FALSE with a soil sensor present and the
\* environmental read succeeding) leaves the pump stopped: it stops a
\* running pump and starts none.
C6_FailedPollStopsPump ==
  [][ (/\ ev'.op = "update"
       /\ ev'.out \in EvaluatedOuts \cup {"unavailable"}
       /\ hw.soil /\ ctl.newSensorDataAvailable /\ ~ctl.sensorReadSuccess)
      => ~pump'.running ]_vars

\* C7: after a decision pass that found the soil sensor absent or
\* unavailable the pump is not running, lastValidSensorTime is 0, lastError
\* is non-zero, newSensorDataAvailable is cleared, the mutex is free, and
\* no watering was started.
C7_UnavailablePass ==
  (ev.op = "update" /\ ev.out = "unavailable")
    => /\ ~pump.running
       /\ ctl.lastValidSensorTime = 0
       /\ ctl.lastError # 0
       /\ ~ctl.newSensorDataAvailable
       /\ mutex = "free"

\* the unavailable pass stopped a timed run that still had time left
C7_Witness ==
  /\ ev.op = "update" /\ ev.out = "unavailable" /\ ev.halt
  /\ pump.runDuration > 0
  /\ now - pump.startTime < pump.runDuration * MsPerSecond

\* C8: a decision pass that sees a moisture value outside [0,100] leaves
\* the pump stopped, records an error (lastError non-zero) and starts
\* nothing.
C8_InvalidMoistureRejected ==
  (ev.op = "update" /\ ev.out = "invalid")
    => (~pump.running /\ ctl.lastError # 0)

\* C9: in degraded mode (lastValidSensorTime 0) an update() that gets no
\* valid reading leaves a running pump whose duration has not elapsed
\* running.
C9_DegradedManualRunContinues ==
  [][ (/\ ev'.op = "update" /\ ev'.out \in {"nodata", "locked", "unavailable"}
       /\ ctl.initialized /\ ctl.lastValidSensorTime = 0
       /\ RunNotElapsed(pump, now))
      => pump'.running ]_vars

\* what manualWatering(d) promises when it starts the pump
ManualStarted(d) ==
  /\ ev'.out = "ok"
  /\ ctl'.initialized
  /\ pump'.running /\ pump'.runDuration = d /\ pump'.startTime = now
  /\ ctl'.lastWateringTime = now

\* C10 as stated: on a controller with a pump, manualWatering(d) starts the
\* pump as a run of d seconds (indefinite for 0) and sets lastWateringTime.
C10_ManualStartsWithPump ==
  [][ (ev'.op = "manualWatering" /\ hw.pump) => ManualStarted(ev'.arg) ]_vars

\* C10 amended: on a controller with a pump and a storage, manualWatering(d)
\* starts the pump as a run of d seconds (indefinite for 0), whatever the
\* moisture, thresholds, wateringEnabled and sensor freshness, initializing
\* the controller if needed; lastWateringTime changes exactly when the pump
\* call succeeded.
C10_ManualStartsWithPumpAndStorage ==
  [][ (ev'.op = "manualWatering")
      => /\ (hw.pump /\ hw.storage) => ManualStarted(ev'.arg)
         /\ ev'.out = "fail" => ctl'.lastWateringTime = ctl.lastWateringTime ]_vars

\* an indefinite manual run started with watering disabled, a rejected
\* moisture value in the getter and no valid sensor data
C10_Witness ==
  /\ ev.op = "manualWatering" /\ ev.out = "ok" /\ ev.arg = 0
  /\ pump.running /\ pump.runDuration = 0
  /\ ~ctl.wateringEnabled
  /\ soil.moisture > MoistureMax
  /\ ctl.lastValidSensorTime = 0

\* C11: initialize() succeeds whenever the pump and the storage are present
\* and initialize, whatever the environmental and the soil sensor do, and the
\* controller is then usable for manual watering; without a pump or without
\* a storage it fails with error 1 and the controller stays uninitialized.
C11_InitializeNotAllOrNothing ==
  (ev.op = "initialize") =>
     /\ (hw.pump /\ hw.storage /\ hw.storageOk) =>
           /\ ev.out = "ok"
           /\ ctl.initialized
           /\ \A d \in ManualDurations :
                ManualWateringOp(World, d, TRUE, TRUE, now).ok
     /\ (~hw.pump \/ ~hw.storage) =>
           /\ ev.out = "fail"
           /\ ~ctl.initialized
           /\ ctl.lastError = 1

\* initialize() returned success although both sensors failed to initialize
C11_Witness ==
  /\ ev.op = "initialize"
  /\ ev.out = "ok"
  /\ hw.env /\ hw.soil /\ hw.storageOk
  /\ ctl.initialized
  /\ ctl.lastError = 4
  /\ ~soil.initialized
  /\ ~pump.running

\* C12: initialize() on an initialized controller returns true and changes
\* nothing (task, timestamps, configuration, pump, sensor); initialize() on
\* an initialized transport returns true, does not touch the direction pin
\* or the receive buffer and changes no member.
C12_InitializeIdempotent ==
  [][ /\ (ev'.op = "initialize" /\ ctl.initialized) =>
            /\ ev'.out = "ok"
            /\ UNCHANGED <<ctl, pump, soil, store, task, mutex>>
      /\ (mb'.call.op = "initialize" /\ mb' # mb /\ mb.initialized) =>
            /\ mb'.call.ret
            /\ mb'.call.pinOps = 0
            /\ mb'.call.drained = 0
            /\ mb' = [mb EXCEPT !.call = mb'.call] ]_vars

\* both second calls have happened: the controller's after a manual run
\* (initialize() would have reset lastWateringTime), the transport's without
\* touching the pin
C12_Witness ==
  /\ ev.op = "initialize"
  /\ ev.out = "ok"
  /\ ctl.lastWateringTime # 0
  /\ pump.running
  /\ mb.call.op = "initialize"
  /\ mb.call.ret
  /\ mb.call.pinOps = 0
  /\ mb.initialized

SetterOps == {"setMoistureThresholdLow", "setMoistureThresholdHigh",
              "setWateringDuration", "setMinWateringInterval"}

SetterField(op) ==
  CASE op = "setMoistureThresholdLow" -> "moistureThresholdLow"
    [] op = "setMoistureThresholdHigh" -> "moistureThresholdHigh"
    [] op = "setWateringDuration" -> "wateringDuration"
    [] op = "setMinWateringInterval" -> "minWateringInterval"

\* the range the claim gives for each mutator's argument
SetterAccepts(op, v) ==
  CASE op = "setMoistureThresholdLow" -> 0 <= v /\ v <= 1000
    [] op = "setMoistureThresholdHigh" -> 0 <= v /\ v <= 1000
    [] op = "setWateringDuration" -> 0 < v /\ v <= 300
    [] op = "setMinWateringInterval" -> 0 < v

OtherIntervals == {1, 86400}

OtherLastWateringTimes == {0, now}

C15_OversizedCountNoIO ==
  [][ (mb'.call.op = "read" /\ mb'.call.c > 125) =>
        /\ ~mb'.call.ret
        /\ mb'.lastError = 2
        /\ mb'.call.wrote = <<>>
        /\ mb'.call.drained = 0
        /\ mb'.call.pinOps = 0
        /\ mb'.rx = mb.rx
        /\ mb'.de = mb.de ]_vars

\* flip bit k of x
FlipBit(x, k) ==
  IF (x \div (2 ^ k)) % 2 = 1 THEN x - 2 ^ k ELSE x + 2 ^ k

\* Modbus CRC-16 as a bit-serial shift register: seed 0xFFFF, message bits
\* least significant first, feedback 0xA001 (bits 15, 13 and 0)
CanonicalCrcBit(reg, bit) ==
  IF ((reg % 2) + bit) % 2 = 1
  THEN FlipBit(FlipBit(FlipBit(reg \div 2, 15), 13), 0)
  ELSE reg \div 2

RECURSIVE CanonicalCrcByte(_, _, _)
CanonicalCrcByte(reg, byte, k) ==
  IF k = 8 THEN reg
  ELSE LET next == CanonicalCrcBit(reg, (byte \div (2 ^ k)) % 2)
       IN IF next \in 0 .. 65535 THEN CanonicalCrcByte(next, byte, k + 1)
          ELSE -1

RECURSIVE CanonicalCRC(_)
CanonicalCRC(msg) ==
  IF msg = <<>> THEN 65535
  ELSE CanonicalCrcByte(CanonicalCRC(SubSeq(msg, 1, Len(msg) - 1)),
                        msg[Len(msg)], 0)

\* C16: the request written is the 8 bytes address, function (0x03 read,
\* 0x06 write), the two 16-bit arguments high byte first, and the CRC-16 of
\* the first six bytes low byte first; the read of 1 register at 0 of device
\* 1 is 01 03 00 00 00 01 84 0A.
C16_RequestFrame ==
  (mb.call.op \in {"read", "write"} /\ mb.serial
   /\ (mb.call.op = "read" => mb.call.c <= 125)) =>
     LET f == mb.call.wrote IN
     /\ Len(f) = 8
     /\ f[1] = mb.call.a
     /\ f[2] = IF mb.call.op = "read" THEN 3 ELSE 6
     /\ f[3] * 256 + f[4] = mb.call.r
     /\ f[5] * 256 + f[6] = mb.call.c
     /\ \A k \in 1 .. 8 : f[k] \in 0 .. 255
     /\ f[8] * 256 + f[7] = CanonicalCRC(SubSeq(f, 1, 6))
     /\ (mb.call.op = "read" /\ mb.call.a = 1 /\ mb.call.r = 0
         /\ mb.call.c = 1) => f = <<1, 3, 0, 0, 0, 1, 132, 10>>

C16_Witness ==
  /\ mb.call.op = "read"
  /\ mb.call.ret
  /\ mb.call.wrote = <<1, 3, 0, 0, 0, 1, 132, 10>>
  /\ mb.successCount = 1

\* C17: calculateCRC(buffer, length) is the Modbus CRC-16 of the first
\* length bytes: it equals the bit-serial definition and the test programs'
\* calculateCRC, is 0xFFFF for length 0 and 0x4B37 for "123456789", and the
\* call changes no member of the client.
C17_CrcIsModbusCrc16 ==
  (mb.call.op = "calculateCRC") =>
     LET c == mb.call
         msg == SubSeq(c.buffer, 1, c.length)
     IN /\ c.crc = CanonicalCRC(msg)
        /\ c.crc = ReferenceCRC(c.buffer, c.length)
        /\ c.crc \in 0 .. 65535
        /\ (c.length = 0) => c.crc = 65535
        /\ (msg = <<49, 50, 51, 52, 53, 54, 55, 56, 57>>) => c.crc = 19255
        /\ [mb EXCEPT !.call = NoCall]
             = ModbusClientInit(TRUE, <<>>, CallerBuffer)

C17_Witness ==
  /\ mb.call.op = "calculateCRC"
  /\ mb.call.buffer = <<49, 50, 51, 52, 53, 54, 55, 56, 57>>
  /\ mb.call.length = 9
  /\ mb.call.crc = 19255

\* the received bytes are g garbage bytes followed by exactly the valid
\* response frame
GarbageThenFrame(resp, a, count, g) ==
  /\ Len(resp) = g + 5 + 2 * count
  /\ SubSeq(resp, g + 1, Len(resp)) = ValidFrame(a, count)

PatternAppears(resp, a) ==
  \E i \in 1 .. (Len(resp) - 1) : resp[i] = a /\ resp[i + 1] = 3

\* C18: a read whose received bytes are 0, 1 or 2 garbage bytes followed by
\* a valid frame succeeds and returns the frame's registers; a read whose
\* received bytes never contain address, 0x03 fails with
\* WrongDeviceAddress (4).
C18_ResyncFindsFrame ==
  (mb.call.op = "read" /\ mb.serial /\ mb.call.c <= 125) =>
     /\ (\E g \in 0 .. 2 :
           GarbageThenFrame(mb.call.resp, mb.call.a, mb.call.c, g)) =>
          /\ mb.call.ret
          /\ \A k \in 1 .. mb.call.c :
               mb.out[k] = DeviceData[2 * k - 1] * 256 + DeviceData[2 * k]
     /\ ~PatternAppears(mb.call.resp, mb.call.a) =>
          /\ ~mb.call.ret
          /\ mb.lastError = 4

\* C19: a read answered by the exception frame address, 0x83, code, CRC
\* fails with last error 100 + code.
C19_ExceptionDecoded ==
  (mb.call.op = "read" /\ mb.serial /\ mb.call.c <= 125
   /\ mb.call.resp = ExceptionFrame(mb.call.a, ExceptionCode)) =>
     /\ ~mb.call.ret
     /\ mb.lastError = 100 + ExceptionCode

\* C20: a failing read or write adds exactly one to errorCount, leaves
\* successCount and the caller's buffer as they were and sets lastError to a
\* non-zero code.
C20_FailureEffects ==
  [][ (mb'.call.op \in {"read", "write"} /\ ~mb'.call.ret) =>
        /\ mb'.errorCount = mb.errorCount + 1
        /\ mb'.successCount = mb.successCount
        /\ mb'.lastError # 0
        /\ mb'.out = mb.out ]_vars

\* a read failed on its CRC after an earlier read had filled the buffer
C20_Witness ==
  /\ mb.call.op = "read"
  /\ ~mb.call.ret
  /\ mb.lastError = 7
  /\ mb.errorCount = 1
  /\ mb.successCount = 1
  /\ mb.out # CallerBuffer

\* the bytes a read call's receive loop collected
TakenBytes(call) ==
  SubSeq(call.resp, 1, Min(Len(call.resp), ((5 + 2 * call.c) % 256) + 2))

\* the response after offset correction: the collected bytes from the
\* first address, 0x03 pattern on, or all of them when there is none
OffsetCorrected(call) ==
  LET taken == TakenBytes(call)
      off == CorrectOffset(taken, Len(taken), call.a)
  IN IF off < 0 THEN taken ELSE SubSeq(taken, off + 1, Len(taken))

\* the first failing check in the documented order, 0 when none fails
FirstFailingCheck(r, a, count) ==
  IF Len(r) < 5 + 2 * count THEN 3
  ELSE IF r[1] # a THEN 4
  ELSE IF r[2] # 3 THEN 5
  ELSE IF r[3] # 2 * count THEN 6
  ELSE IF r[Len(r)] * 256 + r[Len(r) - 1]
          # CanonicalCRC(SubSeq(r, 1, Len(r) - 2))
  THEN 7
  ELSE 0

\* C21: the error of a failed read is the first failing check in the order
\* length (3), echoed address (4), function code (5), byte count (6),
\* CRC (7), applied to the response after offset correction.
C21_ValidationOrder ==
  (mb.call.op = "read" /\ mb.serial /\ mb.call.c <= 125
   /\ mb.call.resp # ExceptionFrame(mb.call.a, ExceptionCode)) =>
     LET e == FirstFailingCheck(OffsetCorrected(mb.call), mb.call.a,
                                mb.call.c)
     IN e # 0 => (~mb.call.ret /\ mb.lastError = e)

\* the bytes received are exactly one frame address, 0x03, 2*count, data,
\* CRC with the Modbus CRC-16 of the frame, low byte first
FullyValid(call) ==
  /\ Len(call.resp) = 5 + 2 * call.c
  /\ FirstFailingCheck(call.resp, call.a, call.c) = 0

\* C22: a read answered by a fully valid frame returns true, writes exactly
\* count registers, register i being the big-endian value of data bytes 2i
\* and 2i+1, sets lastError to 0, adds one to successCount and leaves
\* errorCount as it was.
C22_ValidResponseDecoded ==
  [][ (mb'.call.op = "read" /\ mb'.serial /\ mb'.call.c <= 125
       /\ FullyValid(mb'.call)) =>
        /\ mb'.call.ret
        /\ \A k \in 1 .. Len(mb.out) :
             mb'.out[k] = IF k <= mb'.call.c
                          THEN mb'.call.resp[2 * k + 2] * 256
                               + mb'.call.resp[2 * k + 3]
                          ELSE mb.out[k]
        /\ Len(mb'.out) = Len(mb.out)
        /\ mb'.lastError = 0
        /\ mb'.successCount = mb.successCount + 1
        /\ mb'.errorCount = mb.errorCount ]_vars

\* a two-register read decoded after an earlier call had failed
C22_Witness ==
  /\ mb.call.op = "read"
  /\ FullyValid(mb.call)
  /\ mb.call.c = 2
  /\ mb.call.ret
  /\ mb.out = <<291, 65534>>
  /\ mb.lastError = 0
  /\ mb.errorCount = 1
  /\ mb.successCount = 1

\* the bytes a write call's receive loop collected
EchoBytes(call) == SubSeq(call.resp, 1, Min(Len(call.resp), 8))

\* the request frame of a write call, header and payload then the Modbus
\* CRC-16 low byte first
ExpectedEcho(call) ==
  LET head == <<call.a, 6, call.r \div 256, call.r % 256,
                call.c \div 256, call.c % 256>>
      crc == CanonicalCRC(head)
  IN head \o <<crc % 256, crc \div 256>>

\* C24: writeSingleRegister returns true exactly when 8 bytes were received,
\* the first 6 equal the request's and the last 2 are the CRC of those 6,
\* low byte first; fewer than 8 bytes fail with 3, a differing byte among
\* the first 6 with 8, a wrong CRC with 7.
C24_WriteEchoValidated ==
  (mb.call.op = "write" /\ mb.serial) =>
     LET e == EchoBytes(mb.call)
         x == ExpectedEcho(mb.call)
     IN /\ mb.call.ret <=> e = x
        /\ Len(e) < 8 => mb.lastError = 3
        /\ (Len(e) = 8 /\ SubSeq(e, 1, 6) # SubSeq(x, 1, 6)) =>
             mb.lastError = 8
        /\ (Len(e) = 8 /\ SubSeq(e, 1, 6) = SubSeq(x, 1, 6)
            /\ SubSeq(e, 7, 8) # SubSeq(x, 7, 8)) => mb.lastError = 7

\* a write whose echo had a wrong last byte failed with the CRC error
\* after an earlier write had succeeded
C24_Witness ==
  /\ mb.call.op = "write"
  /\ mb.serial
  /\ Len(mb.call.resp) = 8
  /\ SubSeq(mb.call.resp, 1, 7) = SubSeq(ExpectedEcho(mb.call), 1, 7)
  /\ mb.call.resp[8] # ExpectedEcho(mb.call)[8]
  /\ ~mb.call.ret
  /\ mb.lastError = 7
  /\ mb.successCount = 1

\* C25: neither counter ever decreases; each completed read or write adds
\* exactly one to successCount when it returned true and to errorCount
\* when it returned false, and nothing else changes them, so the two
\* counters sum to the number of completed calls.
C25_CountersCountCalls ==
  [][ /\ mb'.successCount >= mb.successCount
      /\ mb'.errorCount >= mb.errorCount
      /\ mb'.calls = mb.calls + 1 =>
           /\ mb'.call.op \in {"read", "write"}
           /\ mb'.successCount
                = mb.successCount + (IF mb'.call.ret THEN 1 ELSE 0)
           /\ mb'.errorCount
                = mb.errorCount + (IF mb'.call.ret THEN 0 ELSE 1)
      /\ mb'.calls = mb.calls =>
           /\ mb'.successCount = mb.successCount
           /\ mb'.errorCount = mb.errorCount
      /\ mb'.successCount + mb'.errorCount = mb'.calls ]_vars

\* a failed call followed by a successful one, an initialize() in between
C25_Witness ==
  /\ mb.calls = 2
  /\ mb.successCount = 1
  /\ mb.errorCount = 1
  /\ mb.call.op \in {"read", "write"}
  /\ mb.call.ret

\* C23: every read or write call that starts receiving returns; one that
\* collected no byte, or bytes that are not a valid frame, returns false,
\* and no loop is left waiting once timeout has elapsed since the request.
C23_ExchangeTerminates ==
  /\ (mb.call.pc = "receiving") ~> (mb.call.pc = "returned")
  /\ [](mb.call.pc = "returned" =>
          (mb.call.ret =>
             /\ mb.call.op = "read" =>
                  \E g \in 0 .. 2 :
                     /\ Len(mb.call.raw) >= g + 5 + 2 * mb.call.c
                     /\ mb.call.raw[g + 1] = mb.call.a
                     /\ mb.call.raw[g + 2] = 3
             /\ mb.call.op = "write" =>
                  mb.call.raw = ExpectedEcho(mb.call)))

\* a read on whose line no byte ever arrived returned false at the deadline
C23_Witness ==
  /\ mb.call.pc = "returned"
  /\ mb.call.op = "read"
  /\ mb.call.raw = <<>>
  /\ mb.call.line = <<>>
  /\ ~mb.call.ret
  /\ mb.timeout = RS485_DEFAULT_TIMEOUT_MS
  /\ now - mb.call.startTime >= mb.timeout

\* a register is outside the range configured for its parameter; the
\* temperature register is a signed 16-bit value
RegisterOutOfRange(reg, signed, range) ==
  LET v == IF signed /\ reg >= 32768 THEN reg - 65536 ELSE reg
  IN range.isSet /\ (v < range.min \/ v > range.max)

C27_FailedReadKeepsValues ==
  (soil.call.pc = "returned" /\ ~soil.call.ret) =>
     soil.values = soil.call.before

\* C28: whatever the foreground reads through the getters is what the last
\* read() that returned had left, never the members of a read() that is
\* still assigning.
C28_NoTornReading ==
  ev.op \in {"processReadings", "logSensorData"} => ev.seen = ev.completed

\* C29: the foreground never starts a Modbus exchange (update() never
\* reaches its probe of the soil sensor), and the sensor task never runs its
\* exchange while one of the foreground is in flight.
C29_TransportOnlyFromTask ==
  [][ /\ fgPc' # "probing"
      /\ ~(fgPc = "probing" /\ task.pc = "read" /\ task'.pc = "publish")
    ]_vars

\* C30: a poll cycle of the sensor task ends only after newSensorDataAvailable
\* = true and sensorReadSuccess = (both reads succeeded) have been
\* published.
C30_EveryPollPublishes ==
  [][ (task.pc \in {"publish", "locked"} /\ task'.pc = "read") =>
        /\ task.pc = "locked"
        /\ ctl'.newSensorDataAvailable
        /\ ctl'.sensorReadSuccess = task.readSuccess ]_vars

\* C31: an update() that finds newSensorDataAvailable set but the mutex
\* taken skips the decision pass: the flag stays set, the timestamps, the
\* soil values and the mutex are untouched, and the pump is left running
\* exactly when its timed run has not elapsed and the sensor data is recent
\* (timed-run check and safety check both performed).
C31_LockedPassSkipped ==
  [][ (ev'.op = "update" /\ ev'.out = "locked") =>
        /\ ctl'.newSensorDataAvailable
        /\ ctl'.lastValidSensorTime = ctl.lastValidSensorTime
        /\ ctl'.lastWateringTime = ctl.lastWateringTime
        /\ ctl'.sensorReadSuccess = ctl.sensorReadSuccess
        /\ soil' = soil
        /\ mutex' = mutex
        /\ fgPc' = "idle"
        /\ pump'.running <=>
             (RunNotElapsed(pump, now)
              /\ Recent(ctl.lastValidSensorTime, now)) ]_vars

\* an update() met the mutex held by the sensor task and left a running
\* pump running, the data still waiting
C31_Witness ==
  /\ ev.op = "update" /\ ev.out = "locked"
  /\ mutex = "task"
  /\ ctl.newSensorDataAvailable
  /\ pump.running

\* C32: no exchange with the soil sensor runs while sensorDataMutex is
\* held: the sensor task does its read before taking the mutex, and the
\* foreground's probe of the sensor does not run between take and give.
C32_NoExchangeUnderMutex ==
  [][ /\ (task.pc = "read" /\ task'.pc = "publish") => mutex # "task"
      /\ (fgPc = "probing" /\ fgPc' = "idle") => mutex # "fg" ]_vars

C34_TimestampOnlyOnValidReading ==
  [][ (ctl'.lastValidSensorTime # ctl.lastValidSensorTime
       /\ ctl'.lastValidSensorTime # 0) =>
        /\ ev'.op = "update"
        /\ ev'.out \in ThresholdOuts
        /\ soil'.moisture >= 0 /\ soil'.moisture <= MoistureMax
        /\ ctl.sensorReadSuccess ]_vars

\* the bytes received are a fully valid frame followed by one or two more
TrailingBytes(call) ==
  LET n == 5 + 2 * call.c IN
  /\ Len(call.resp) \in {n + 1, n + 2}
  /\ FirstFailingCheck(SubSeq(call.resp, 1, n), call.a, call.c) = 0

\* C35: a read answered by a valid frame followed by up to two trailing
\* bytes succeeds with the frame's register values: the CRC is checked
\* over the expected frame length.
C35_TrailingBytesAccepted ==
  (mb.call.op = "read" /\ mb.serial /\ mb.call.c <= 125
   /\ TrailingBytes(mb.call)) =>
     /\ mb.call.ret
     /\ mb.lastError = 0
     /\ \A k \in 1 .. mb.call.c :
          mb.out[k] = mb.call.resp[2 * k + 2] * 256 + mb.call.resp[2 * k + 3]

\* C36: request bytes are written only with the direction line at
\* transmit; the line goes back to receive only after flush() and before
\* any response byte is read; and whenever no call is in progress on an
\* initialized transport the line is at receive.
C36_DirectionOrdering ==
  [][ /\ (mb'.call.wrote # mb.call.wrote /\ mb'.call.wrote # <<>>) =>
            (mb.de = "high" /\ mb'.de = "high")
      /\ (mb.de = "high" /\ mb'.de # "high") =>
            (mb.call.flushed /\ mb.call.wrote = RequestOf(mb.call)
             /\ mb'.de = "low")
      /\ Len(mb'.call.raw) > Len(mb.call.raw) =>
            (mb.de = "low" /\ mb.call.flushed)
      /\ (mb'.initialized /\ mb'.call.pc \in {"idle", "returned"}) =>
            mb'.de = "low" ]_vars

\* a read exchange that went through transmit and back and succeeded
C36_Witness ==
  /\ mb.call.op = "read"
  /\ mb.call.pc = "returned"
  /\ mb.call.ret
  /\ mb.call.wrote = ReadRequest(1, 0, 1)
  /\ mb.call.flushed
  /\ Len(mb.call.raw) = 7
  /\ mb.de = "low"

\* the state left by a decision pass that called processReadings() on a
\* reading in [0,100] produced by a successful poll at most 30 s ago
FreshValidPass ==
  /\ ev.op = "update"
  /\ ev.out \in EvaluatedOuts
  /\ ctl.sensorReadSuccess
  /\ Recent(soil.validAt, now)
  /\ soil.moisture >= 0 /\ soil.moisture <= MoistureMax

\* C37: when decision passes on fresh valid readings with the sensor
\* available keep coming, a stale period (lastValidSensorTime non-zero and
\* older than 30 000 ms) ends: a later pass refreshes lastValidSensorTime.
C37_RecoversFromStale ==
  ([]<>FreshValidPass) =>
     [](SensorDataTooOld(ctl.lastValidSensorTime, now)
          => <>Recent(ctl.lastValidSensorTime, now))

\* C38: in readHoldingRegisters, for every count in 0..125 and whatever
\* arrives, every received byte is stored at an index below the 256-byte
\* capacity of the receive buffer, and expectedLength holds 5 + 2*count
\* unwrapped.
C38_ReceiveIndexInBounds ==
  mb.call.op = "read" =>
    /\ mb.call.index < RESPONSE_BUFFER_SIZE
    /\ mb.call.expectedLength = 5 + 2 * mb.call.c

\* C39: once initialize() has succeeded wateringDuration is within (0,300]
\* seconds, whether it came from the setter or from the configuration blob
\* loaded from storage.
C39_WateringDurationInRange ==
  ctl.initialized =>
    (ctl.wateringDuration > 0 /\ ctl.wateringDuration <= MaxWateringDuration)

\* C40: while loop() keeps iterating, each iteration taking far less than
\* 30 s, checkWatchdog() never restarts the system, whatever the uptime.
C40_NoRestartWhileLooping == fgPc.pc # "restarting"

====
